---------------------------- MODULE Spec2Model ----------------------------
(***************************************************************************)
(* Model of the image CDN server: the upload, resolve (serveImage),       *)
(* get-info, list and delete handlers running as concurrent asynchronous   *)
(* requests against the shared files on disk (the metadata index file,     *)
(* the originals directory and the cache directory).  Every await of a     *)
(* handler is a step boundary: the other requests may run between two      *)
(* steps of one request.                                                   *)
(*                                                                         *)
(* Spec:       the handlers as concurrent requests.                        *)
(* SpecSerial: the requests one at a time, with multer's validation of     *)
(*             the upload and with the I/O errors of every handler.        *)
(* SpecDelete: deletes of images that have several cached sizes, with the  *)
(*             I/O errors of the removals.                                 *)
(* SpecDims:   the route /images/:id/:width/:height on the texts of its    *)
(*             parameters.                                                 *)
(***************************************************************************)
EXTENDS Integers, FiniteSets, Sequences, TLC

(* ------------------------------ bounds -------------------------------- *)

\* number of requests that can be in flight at the same time
NReq == 2
\* number of identities generateImageId hands out in one behaviour
MaxIds == 2
\* distinct upload payloads
MaxData == 2
\* requested sizes: w x w for w in 1..MaxW
MaxW == 1

Reqs == 1..NReq
GenIds == 1..MaxIds
\* A URL parameter that names a property every JavaScript object inherits
\* ("constructor"): it is never a generated identity.
ProtoKey == 0
ReqIds == GenIds \cup {ProtoKey}
Dims == {<<w, w>> : w \in 1..MaxW}
\* the route GET /images/:id passes width = null, height = null
NoDim == <<0, 0>>
Exts == {".png"}
\* imageMeta.extension of an inherited property is undefined
NoExt == "undefined"
\* the uploads: images with distinct bytes, and one file that is no image;
\* data stands for the bytes and for their number (req.file.size)
Payloads == {p \in [data : 1..MaxData, valid : BOOLEAN] : p.valid \/ p.data = 1}

\* config.maxFileSize = 50 * 1024 * 1024
MaxFileSize == 52428800
\* config.allowedMimeTypes
AllowedMimeTypes == {"image/jpeg", "image/png", "image/webp", "image/gif"}
\* imageMeta.mimeType of an inherited property is undefined
NoMime == "undefined"
\* the largest width and height of the route /images/:id/:width/:height
MaxDimension == 5000
\* config.cacheMaxAge, and the header `public, max-age=${config.cacheMaxAge}`
CacheMaxAge == 31536000
CacheControl == <<"public", "max-age", CacheMaxAge>>
WebpType == "image/webp"
\* error.message of an exception thrown by sharp, and by fs
SharpError == "sharp: the input is no image"
FsError == "fs: the operation failed"

(* --------------------------- file contents ---------------------------- *)

\* The bytes of a file or of a response body.  w = h = 0: as uploaded.
\* full = FALSE: only a prefix of the bytes (a file opened for writing and
\* truncated whose content is not written yet).
NoBytes == [data |-> 0, valid |-> FALSE, w |-> 0, h |-> 0, full |-> FALSE]
OriginalBytes(p) == [data |-> p.data, valid |-> p.valid, w |-> 0, h |-> 0, full |-> TRUE]
\* sharp(original).resize(w, h, inside, withoutEnlargement).webp().toBuffer()
ResizeWebp(b, d) == [b EXCEPT !.w = d[1], !.h = d[2]]
Truncated(b) == [b EXCEPT !.full = FALSE]

(* ------------------------------- state -------------------------------- *)

VARIABLES
    metaFile,    \* storage/metadata.json: [ok, images]; ok = FALSE: not valid JSON
    originals,   \* files of storage/originals at their final name: <<id, ext>> -> bytes
    cache,       \* files of storage/cache: <<id, dim>> -> bytes
    nextId,      \* how many identities generateImageId has produced
    req,         \* the requests in flight: position, parameters, locals, response
    uploaded,    \* history: identity -> [rec, bytes] of the uploads answered with success
    delStarted,  \* history: identities whose delete handler passed the 404 check
    deleted,     \* history: identities whose delete was answered with success
    served       \* history: <<id, dim>> -> the bytes of the last 200 answer of resolve

VARIABLES
    cred,         \* the credentials each request carries: the Authorization and x-api-key headers
    usersFile,    \* storage/users.json: [ok, users]; ok = FALSE: missing or not valid JSON
    tempSessions, \* app.locals.tempSessions: tempSessionId -> [username, expiresAt]
    pendingTotp,  \* app.locals.pendingTotp: username -> the secret of the last setup
    now,          \* Date.now()
    nextUuid,     \* how many tempSessionIds uuidv4 has produced
    nextSecret,   \* how many secrets generateTotpSecret has produced
    boot          \* start(): the position of createDefaultAdmin and its local users

authVars == <<cred, usersFile, tempSessions, pendingTotp, now, nextUuid, nextSecret, boot>>

vars == <<metaFile, originals, cache, nextId, req, uploaded, delStarted, deleted, served,
          authVars>>

EmptyStore == [i \in {} |-> 0]

(* ----------------------- credentials and users ------------------------ *)

\* config.apiKey
ConfiguredApiKey == "your-secret-api-key-change-this"
\* no x-api-key header and no apiKey query parameter
NoKey == ""
ApiKeys == {NoKey, ConfiguredApiKey, "not-the-key"}

UserNames == {"admin", "alice"}
NoUser == ""
\* the token of the Authorization header: sent = FALSE when the header is
\* missing or has no second word; valid = jwt.verify accepts it (signed with
\* config.jwtSecret and not expired); username: the payload
NoToken == [sent |-> FALSE, valid |-> FALSE, username |-> NoUser]
\* generateToken(userId, username) = jwt.sign({ userId, username }, ...)
generateToken(u) == [sent |-> TRUE, valid |-> TRUE, username |-> u]
\* a token with a wrong signature, or an expired one
BadToken(u) == [sent |-> TRUE, valid |-> FALSE, username |-> u]
Tokens == {NoToken} \cup {generateToken(u) : u \in UserNames} \cup {BadToken(u) : u \in UserNames}
\* verifyToken: the decoded payload, or null
Null == [username |-> NoUser]
verifyToken(token) == IF token.valid THEN [username |-> token.username] ELSE Null

\* the headers of a request; arrived = FALSE: no request is in the slot
Credentials == [arrived : {TRUE}, token : Tokens, apiKey : ApiKeys]
NoRequest == [arrived |-> FALSE, token |-> NoToken, apiKey |-> NoKey]
\* a request that carries the configured API key and no token
ApiKeyOnly == [arrived |-> TRUE, token |-> NoToken, apiKey |-> ConfiguredApiKey]

\* validateToken that lets every request pass
validateTokenOpen(c) == TRUE
\* validateToken (validateApiKey is an alias): next() when the token verifies
\* or the API key is the configured one, 401 otherwise
validateToken(c) ==
    \/ c.token.sent /\ verifyToken(c.token) # Null
    \/ c.apiKey # NoKey /\ c.apiKey = ConfiguredApiKey

\* process.env.ADMIN_PASSWORD || 'admin123'
DefaultPassword == "admin123"
Passwords == {DefaultPassword, "hunter2"}
\* bcrypt.hash(password, salt) and bcrypt.compare(password, hash)
hashPassword(password) == <<"bcrypt", password>>
verifyPassword(password, hash) == hash = hashPassword(password)

\* totpSecret: null
NoSecret == 0
\* users.admin = { username, passwordHash, createdAt, totpSecret: null, totpEnabled: false }
DefaultAdmin == [username |-> "admin", passwordHash |-> hashPassword(DefaultPassword),
                 totpSecret |-> NoSecret, totpEnabled |-> FALSE]
EmptyUsers == [u \in {} |-> DefaultAdmin]
\* loadUsers: the parsed file, or {} when the file is missing or not valid JSON
loadUsers == IF usersFile.ok THEN usersFile.users ELSE EmptyUsers
\* saveUsers = fs.writeFile of the whole users object
saveUsers(users) == [ok |-> TRUE, users |-> users]

\* no tempSessionId
NoSession == 0
\* a TOTP code that no secret produces
WrongCode == 0
\* req.body of the authentication routes: { username, password } of login,
\* { token, enable, tempSessionId } of totp/verify (token is the TOTP code)
NoForm == [username |-> NoUser, password |-> "", code |-> WrongCode, enable |-> FALSE,
           tempSessionId |-> NoSession]

\* start() has returned: app.listen was called
Listening == [pc |-> "listening", users |-> EmptyUsers]

\* the authentication state of a fresh installation once the server
\* listens: createDefaultAdmin has written the admin user, no login session
\* and no pending secret exist, and every request carries the API key
FreshAuth ==
    /\ cred = [r \in Reqs |-> ApiKeyOnly]
    /\ usersFile = saveUsers([u \in {"admin"} |-> DefaultAdmin])
    /\ tempSessions = [t \in {} |-> 0]
    /\ pendingTotp = [u \in {} |-> NoSecret]
    /\ now = 0
    /\ nextUuid = 0
    /\ nextSecret = 0
    /\ boot = Listening
\* a response: status, the error field, the message field (error.message), the
\* body, the Content-Type and Cache-Control headers
\* token, requiresTotp, tempSessionId, secret: the fields of the answers of
\* the authentication routes
NoResp == [status |-> 0, msg |-> "", detail |-> "", body |-> NoBytes, via |-> "none",
           images |-> EmptyStore, ctype |-> "", cc |-> <<>>,
           token |-> NoToken, requiresTotp |-> FALSE, tempSessionId |-> NoSession,
           secret |-> NoSecret]
\* mime: the media type (declared at upload, read from the record at resolve);
\* raw: the :width and :height parameters as text;
\* size: the pixel size of the original that sharp decoded;
\* form: req.body of an authentication request; users: its loaded users
\* object; secret: the secret totp/setup generated;
\* had, origFailed, lsFailed, failed: history of a delete (the cache files of
\* the identity when it started, the I/O errors it met)
IdleReq == [pc |-> "idle", op |-> "none", id |-> ProtoKey, dim |-> NoDim,
            payload |-> [data |-> 0, valid |-> FALSE], ext |-> NoExt, mime |-> NoMime,
            raw |-> <<>>, size |-> NoDim, form |-> NoForm, users |-> EmptyUsers,
            secret |-> NoSecret,
            store |-> EmptyStore, files |-> {}, buf |-> NoBytes,
            sawUp |-> FALSE, sawDel |-> FALSE, seen |-> {}, prev |-> NoBytes,
            had |-> {}, origFailed |-> FALSE, lsFailed |-> FALSE, failed |-> {},
            resp |-> NoResp]

Resp(s, m) == [NoResp EXCEPT !.status = s, !.msg = m]
\* res.status(500).json({ error, message: error.message })
RespError(m, d) == [NoResp EXCEPT !.status = 500, !.msg = m, !.detail = d]
\* the catch of serveImage, entered from sharp and from fs.writeFile
DecodeFailureAnswer == RespError("Failed to serve image", SharpError)
WriteFailureAnswer == RespError("Failed to serve image", FsError)
\* a sent file or buffer; via: which branch of serveImage produced it
RespBody(b, v) == [NoResp EXCEPT !.status = 200, !.body = b, !.via = v]
\* res.json of index records
RespJson(recs) == [NoResp EXCEPT !.status = 200, !.images = recs]
\* the response without the Cache-Control header
WithoutCacheControl(resp, ctype) == [resp EXCEPT !.ctype = ctype]
\* res.set({ 'Cache-Control': ..., 'Content-Type': ... }) before the body is sent
WithHeaders(resp, ctype) == [resp EXCEPT !.ctype = ctype, !.cc = CacheControl]

(* --------------------------- metadata index --------------------------- *)

\* loadMetadata: the parsed file, or { images: {} } when the file is missing
\* or is not valid JSON
loadMetadata == IF metaFile.ok THEN metaFile.images ELSE EmptyStore

\* saveMetadata = fs.writeFile: the file is opened with truncation, then the
\* whole text is written
saveMetadataOpen == [ok |-> FALSE, images |-> EmptyStore]
saveMetadataWrite(store) == [ok |-> TRUE, images |-> store]

\* the lookup that is always truthy
HasEntryAlways(store, id) == TRUE
\* metadataStore.images[imageId] as a truth value: an own record, or a
\* property inherited from Object.prototype
HasEntry(store, id) == id \in DOMAIN store \/ id = ProtoKey
ExtensionOf(store, id) == IF id \in DOMAIN store THEN store[id].extension ELSE NoExt
MimeOf(store, id) == IF id \in DOMAIN store THEN store[id].mimeType ELSE NoMime

\* metadataStore.images[imageId] = { id, ..., mimeType, size, ..., extension }
ImageRecord(id, p, e, m) == [id |-> id, mimeType |-> m, size |-> p.data, extension |-> e]
PutRecord(store, id, rec) == [i \in DOMAIN store \cup {id} |-> IF i = id THEN rec ELSE store[i]]
\* delete metadataStore.images[imageId]
RemoveRecord(store, id) == [i \in DOMAIN store \ {id} |-> store[i]]

(* ------------------------------- files -------------------------------- *)

\* newPath built without the extension
NewPathNoExt(id, e) == <<id, NoExt>>
\* upload: newPath = path.join(config.originalsPath, `${imageId}${originalExt}`)
NewPath(id, e) == <<id, e>>
\* serveImage, delete: originalPath = `${imageId}${imageMeta.extension}`
OriginalPath(id, e) == <<id, e>>
\* serveImage: cachePath = `${imageId}_${width}x${height}.webp`
CachePath(id, d) == <<id, d>>
HasFile(dir, name) == name \in DOMAIN dir
WriteFile(dir, name, b) == [n \in DOMAIN dir \cup {name} |-> IF n = name THEN b ELSE dir[n]]
Unlink(dir, names) == [n \in DOMAIN dir \ names |-> dir[n]]

TypeOK ==
    /\ metaFile.ok \in BOOLEAN
    /\ DOMAIN metaFile.images \subseteq GenIds
    /\ DOMAIN originals \subseteq GenIds \X Exts
    /\ \A k \in DOMAIN cache : k[1] \in GenIds /\ k[2][1] >= 1 /\ k[2][2] >= 1
    /\ nextId \in 0..MaxIds
    /\ DOMAIN req = Reqs

\* initStorage: the directories exist and are empty, the index file holds
\* { images: {} }
Init ==
    /\ metaFile = [ok |-> TRUE, images |-> EmptyStore]
    /\ originals = [n \in {} |-> NoBytes]
    /\ cache = [n \in {} |-> NoBytes]
    /\ nextId = 0
    /\ req = [r \in Reqs |-> IdleReq]
    /\ uploaded = [i \in {} |-> NoBytes]
    /\ delStarted = {}
    /\ deleted = {}
    /\ served = [k \in {} |-> NoBytes]
    /\ FreshAuth

Set(r, rec) == req' = [req EXCEPT ![r] = rec]
\* the response is sent: the handler's locals are gone
Finish(r, resp) ==
    Set(r, [IdleReq EXCEPT !.pc = "done", !.op = req[r].op, !.id = req[r].id,
                           !.dim = req[r].dim, !.payload = req[r].payload,
                           !.sawUp = req[r].sawUp, !.sawDel = req[r].sawDel,
                           !.prev = req[r].prev, !.mime = req[r].mime,
                           !.origFailed = req[r].origFailed, !.lsFailed = req[r].lsFailed,
                           !.failed = req[r].failed, !.resp = resp])

(* ------------------------- POST /api/upload --------------------------- *)

\* multer has stored the uploaded file under a random name in the originals
\* directory; imageId = generateImageId(); await fs.rename(req.file.path, newPath)
UploadAccepted(r, p, e, m) ==
    /\ nextId < MaxIds
    /\ nextId' = nextId + 1
    /\ originals' = WriteFile(originals, NewPath(nextId', e), OriginalBytes(p))
    /\ Set(r, [IdleReq EXCEPT !.pc = "up_decode", !.op = "upload", !.id = nextId',
                              !.payload = p, !.ext = e, !.mime = m])

\* an upload of an image declared as image/png
UploadRename(r) ==
    /\ req[r].pc = "idle"
    /\ \E p \in Payloads, e \in Exts : UploadAccepted(r, p, e, "image/png")
    /\ UNCHANGED <<metaFile, cache, uploaded, delStarted, deleted, served, authVars>>

\* metadata = await sharp(newPath).metadata(): throws when the bytes are no image
UploadDecode(r) ==
    /\ req[r].pc = "up_decode"
    /\ IF HasFile(originals, NewPath(req[r].id, req[r].ext))
          /\ originals[NewPath(req[r].id, req[r].ext)].valid
       THEN Set(r, [req[r] EXCEPT !.pc = "up_load"])
       ELSE Finish(r, RespError("Failed to upload image", SharpError))
    /\ UNCHANGED <<metaFile, originals, cache, nextId, uploaded, delStarted, deleted, served, authVars>>

\* metadataStore = await loadMetadata(); metadataStore.images[imageId] = {...}
UploadLoad(r) ==
    /\ req[r].pc = "up_load"
    /\ Set(r, [req[r] EXCEPT !.pc = "up_save",
                             !.store = PutRecord(loadMetadata, req[r].id,
                                                 ImageRecord(req[r].id, req[r].payload, req[r].ext,
                                                             req[r].mime))])
    /\ UNCHANGED <<metaFile, originals, cache, nextId, uploaded, delStarted, deleted, served, authVars>>

\* await saveMetadata(metadataStore): the open of fs.writeFile
UploadSaveOpen(r) ==
    /\ req[r].pc = "up_save"
    /\ \/ /\ metaFile' = saveMetadataOpen
          /\ Set(r, [req[r] EXCEPT !.pc = "up_write"])
       \/ /\ Finish(r, RespError("Failed to upload image", FsError))
          /\ UNCHANGED metaFile
    /\ UNCHANGED <<originals, cache, nextId, uploaded, delStarted, deleted, served, authVars>>

\* the write of fs.writeFile, then res.json({ success: true, image })
UploadSaveWrite(r) ==
    /\ req[r].pc = "up_write"
    /\ metaFile' = saveMetadataWrite(req[r].store)
    /\ Finish(r, RespJson([i \in {req[r].id} |-> req[r].store[i]]))
    /\ uploaded' = WriteFile(uploaded, req[r].id,
                             [rec |-> req[r].store[req[r].id], bytes |-> OriginalBytes(req[r].payload)])
    /\ UNCHANGED <<originals, cache, nextId, delStarted, deleted, served, authVars>>

Upload(r) ==
    \/ UploadRename(r)
    \/ UploadDecode(r)
    \/ UploadLoad(r)
    \/ UploadSaveOpen(r)
    \/ UploadSaveWrite(r)

(* ------------- GET /images/:id and /images/:id/:width/:height --------- *)

\* the route handler calls serveImage(req, res, width, height):
\* metadataStore = await loadMetadata(); if (!metadataStore.images[imageId]) 404
ResolveLoad(r) ==
    /\ req[r].pc = "idle"
    /\ \E i \in ReqIds, d \in Dims \cup {NoDim} :
         LET rq == [IdleReq EXCEPT !.op = "resolve", !.id = i, !.dim = d,
                                   !.sawUp = (i \in DOMAIN uploaded),
                                   !.sawDel = (i \in deleted),
                                   !.prev = IF <<i, d>> \in DOMAIN served
                                            THEN served[<<i, d>>] ELSE NoBytes]
         IN  IF HasEntry(loadMetadata, i)
             THEN Set(r, [rq EXCEPT !.pc = "rs_access", !.ext = ExtensionOf(loadMetadata, i),
                                    !.mime = MimeOf(loadMetadata, i)])
             ELSE Set(r, [rq EXCEPT !.pc = "done", !.resp = Resp(404, "Image not found")])
    /\ UNCHANGED <<metaFile, originals, cache, nextId, uploaded, delStarted, deleted, served, authVars>>

\* serveImage that looks at the cache before it checks the original
ResolveAccessCacheFirst(r) ==
    /\ req[r].pc = "rs_access"
    /\ IF req[r].dim # NoDim /\ HasFile(cache, CachePath(req[r].id, req[r].dim))
       THEN Set(r, [req[r] EXCEPT !.pc = "rs_sendcache"])
       ELSE IF ~HasFile(originals, OriginalPath(req[r].id, req[r].ext))
       THEN Finish(r, Resp(404, "Image file not found"))
       ELSE IF req[r].dim = NoDim
            THEN Set(r, [req[r] EXCEPT !.pc = "rs_sendorig"])
            ELSE Set(r, [req[r] EXCEPT !.pc = "rs_cache"])
    /\ UNCHANGED <<metaFile, originals, cache, nextId, uploaded, delStarted, deleted, served, authVars>>
\* serveImage without the check that the original exists
ResolveAccessNoCheck(r) ==
    /\ req[r].pc = "rs_access"
    /\ IF req[r].dim = NoDim
       THEN Set(r, [req[r] EXCEPT !.pc = "rs_sendorig"])
       ELSE Set(r, [req[r] EXCEPT !.pc = "rs_cache"])
    /\ UNCHANGED <<metaFile, originals, cache, nextId, uploaded, delStarted, deleted, served, authVars>>
\* await fs.access(originalPath), then the branch on width and height
ResolveAccess(r) ==
    /\ req[r].pc = "rs_access"
    /\ IF ~HasFile(originals, OriginalPath(req[r].id, req[r].ext))
       THEN Finish(r, Resp(404, "Image file not found"))
       ELSE IF req[r].dim = NoDim
            THEN Set(r, [req[r] EXCEPT !.pc = "rs_sendorig"])
            ELSE Set(r, [req[r] EXCEPT !.pc = "rs_cache"])
    /\ UNCHANGED <<metaFile, originals, cache, nextId, uploaded, delStarted, deleted, served, authVars>>

\* the original sent with the content type of the variants
ResolveSendOriginalAsWebp(r) ==
    /\ req[r].pc = "rs_sendorig"
    /\ IF HasFile(originals, OriginalPath(req[r].id, req[r].ext))
       THEN Finish(r, WithHeaders(RespBody(originals[OriginalPath(req[r].id, req[r].ext)],
                                           "original"),
                                  WebpType))
       ELSE Finish(r, Resp(404, "Not Found"))
    /\ UNCHANGED <<metaFile, originals, cache, nextId, uploaded, delStarted, deleted, served, authVars>>
\* res.sendFile(originalPath): the file is read when it is sent
ResolveSendOriginal(r) ==
    /\ req[r].pc = "rs_sendorig"
    /\ IF HasFile(originals, OriginalPath(req[r].id, req[r].ext))
       THEN Finish(r, WithHeaders(RespBody(originals[OriginalPath(req[r].id, req[r].ext)],
                                           "original"),
                                  req[r].mime))
       ELSE Finish(r, Resp(404, "Not Found"))
    /\ UNCHANGED <<metaFile, originals, cache, nextId, uploaded, delStarted, deleted, served, authVars>>

\* await fs.access(cachePath): present -> send it, absent -> generate
ResolveCacheAccess(r) ==
    /\ req[r].pc = "rs_cache"
    /\ IF HasFile(cache, CachePath(req[r].id, req[r].dim))
       THEN Set(r, [req[r] EXCEPT !.pc = "rs_sendcache"])
       ELSE Set(r, [req[r] EXCEPT !.pc = "rs_resize"])
    /\ UNCHANGED <<metaFile, originals, cache, nextId, uploaded, delStarted, deleted, served, authVars>>

\* res.sendFile(cachePath): whatever bytes the file holds when it is sent
ResolveSendCache(r) ==
    /\ req[r].pc = "rs_sendcache"
    /\ IF HasFile(cache, CachePath(req[r].id, req[r].dim))
       THEN /\ Finish(r, WithHeaders(RespBody(cache[CachePath(req[r].id, req[r].dim)], "cache"),
                                       WebpType))
            /\ served' = WriteFile(served, CachePath(req[r].id, req[r].dim),
                                   cache[CachePath(req[r].id, req[r].dim)])
       ELSE /\ Finish(r, Resp(404, "Not Found"))
            /\ UNCHANGED served
    /\ UNCHANGED <<metaFile, originals, cache, nextId, uploaded, delStarted, deleted, authVars>>

\* resizedBuffer = await sharp(originalPath).resize(...).webp(...).toBuffer()
ResolveResize(r) ==
    /\ req[r].pc = "rs_resize"
    /\ IF HasFile(originals, OriginalPath(req[r].id, req[r].ext))
       THEN Set(r, [req[r] EXCEPT !.pc = "rs_wopen",
                                  !.buf = ResizeWebp(originals[OriginalPath(req[r].id, req[r].ext)], req[r].dim)])
       ELSE Finish(r, DecodeFailureAnswer)
    /\ UNCHANGED <<metaFile, originals, cache, nextId, uploaded, delStarted, deleted, served, authVars>>

\* await fs.writeFile(cachePath, resizedBuffer): the open creates or truncates
\* the file at its final name
ResolveWriteOpen(r) ==
    /\ req[r].pc = "rs_wopen"
    /\ \/ /\ cache' = WriteFile(cache, CachePath(req[r].id, req[r].dim), Truncated(req[r].buf))
          /\ Set(r, [req[r] EXCEPT !.pc = "rs_write"])
       \/ /\ Finish(r, WriteFailureAnswer)
          /\ UNCHANGED cache
    /\ UNCHANGED <<metaFile, originals, nextId, uploaded, delStarted, deleted, served, authVars>>

\* the write of fs.writeFile, then res.send(resizedBuffer); the bytes go to
\* the file that was opened: when a delete has unlinked it in between, no file
\* of that name appears
ResolveWrite(r) ==
    /\ req[r].pc = "rs_write"
    /\ cache' = IF HasFile(cache, CachePath(req[r].id, req[r].dim))
                THEN WriteFile(cache, CachePath(req[r].id, req[r].dim), req[r].buf)
                ELSE cache
    /\ Finish(r, WithHeaders(RespBody(req[r].buf, "fresh"), WebpType))
    /\ served' = WriteFile(served, CachePath(req[r].id, req[r].dim), req[r].buf)
    /\ UNCHANGED <<metaFile, originals, nextId, uploaded, delStarted, deleted, authVars>>

Resolve(r) ==
    \/ ResolveLoad(r)
    \/ ResolveAccess(r)
    \/ ResolveSendOriginal(r)
    \/ ResolveCacheAccess(r)
    \/ ResolveSendCache(r)
    \/ ResolveResize(r)
    \/ ResolveWriteOpen(r)
    \/ ResolveWrite(r)

(* ---------------- GET /api/images and /api/images/:id ----------------- *)

\* metadataStore = await loadMetadata(); res.json({ count, images })
ListImages(r) ==
    /\ req[r].pc = "idle"
    /\ Set(r, [IdleReq EXCEPT !.pc = "done", !.op = "list", !.resp = RespJson(loadMetadata),
                              !.seen = DOMAIN uploaded \ delStarted])
    /\ UNCHANGED <<metaFile, originals, cache, nextId, uploaded, delStarted, deleted, served, authVars>>

\* metadataStore = await loadMetadata(); 404, or res.json of the record
GetImage(r) ==
    /\ req[r].pc = "idle"
    /\ \E i \in ReqIds :
         LET rq == [IdleReq EXCEPT !.pc = "done", !.op = "info", !.id = i,
                                   !.sawUp = (i \in DOMAIN uploaded),
                                   !.sawDel = (i \in deleted)]
         IN  IF HasEntry(loadMetadata, i)
             THEN Set(r, [rq EXCEPT !.resp = RespJson([j \in {i} \cap DOMAIN loadMetadata |->
                                                        loadMetadata[j]])])
             ELSE Set(r, [rq EXCEPT !.resp = Resp(404, "Image not found")])
    /\ UNCHANGED <<metaFile, originals, cache, nextId, uploaded, delStarted, deleted, served, authVars>>

(* ------------------------ DELETE /api/images/:id ---------------------- *)

\* metadataStore = await loadMetadata(); if (!metadataStore.images[imageId]) 404
DeleteLoad(r) ==
    /\ req[r].pc = "idle"
    /\ \E i \in ReqIds :
         LET rq == [IdleReq EXCEPT !.op = "delete", !.id = i] IN
         IF HasEntry(loadMetadata, i)
         THEN /\ Set(r, [rq EXCEPT !.pc = "dl_unlink", !.store = loadMetadata,
                                   !.ext = ExtensionOf(loadMetadata, i),
                                   !.had = {n \in DOMAIN cache : n[1] = i}])
              /\ delStarted' = delStarted \cup ({i} \cap GenIds)
         ELSE /\ Set(r, [rq EXCEPT !.pc = "done", !.resp = Resp(404, "Image not found")])
              /\ UNCHANGED delStarted
    /\ UNCHANGED <<metaFile, originals, cache, nextId, uploaded, deleted, served, authVars>>

\* the original is left on disk and no error is noted
DeleteUnlinkOriginalSkipped(r) ==
    /\ req[r].pc = "dl_unlink"
    /\ Set(r, [req[r] EXCEPT !.pc = "dl_readdir"])
    /\ UNCHANGED <<metaFile, originals, cache, nextId, uploaded, delStarted, deleted, served, authVars>>
\* await fs.unlink(originalPath), a failure is only logged
DeleteUnlinkOriginal(r) ==
    /\ req[r].pc = "dl_unlink"
    /\ originals' = Unlink(originals, {OriginalPath(req[r].id, req[r].ext)})
    /\ Set(r, [req[r] EXCEPT !.pc = "dl_readdir"])
    /\ UNCHANGED <<metaFile, cache, nextId, uploaded, delStarted, deleted, served, authVars>>

\* file.startsWith(imageId) on a cache file name `${id}_${w}x${h}.webp`
StartsWith(name, id) == name[1] = id

\* cacheFiles = await fs.readdir(cachePath); the filter on the name prefix
DeleteReaddir(r) ==
    /\ req[r].pc = "dl_readdir"
    /\ Set(r, [req[r] EXCEPT !.pc = "dl_unlinkcache",
                             !.files = {n \in DOMAIN cache : StartsWith(n, req[r].id)}])
    /\ UNCHANGED <<metaFile, originals, cache, nextId, uploaded, delStarted, deleted, served, authVars>>

\* await Promise.all(imageCacheFiles.map(unlink)); delete metadataStore.images[imageId]
DeleteUnlinkCache(r) ==
    /\ req[r].pc = "dl_unlinkcache"
    /\ cache' = Unlink(cache, req[r].files)
    /\ Set(r, [req[r] EXCEPT !.pc = "dl_save", !.files = {},
                             !.store = RemoveRecord(req[r].store, req[r].id)])
    /\ UNCHANGED <<metaFile, originals, nextId, uploaded, delStarted, deleted, served, authVars>>

\* await saveMetadata(metadataStore): the open of fs.writeFile
DeleteSaveOpen(r) ==
    /\ req[r].pc = "dl_save"
    /\ \/ /\ metaFile' = saveMetadataOpen
          /\ Set(r, [req[r] EXCEPT !.pc = "dl_write"])
       \/ /\ Finish(r, RespError("Failed to delete image", FsError))
          /\ UNCHANGED metaFile
    /\ UNCHANGED <<originals, cache, nextId, uploaded, delStarted, deleted, served, authVars>>

\* the write of fs.writeFile, then res.json({ success: true })
DeleteSaveWrite(r) ==
    /\ req[r].pc = "dl_write"
    /\ metaFile' = saveMetadataWrite(req[r].store)
    /\ Finish(r, Resp(200, "Image deleted"))
    /\ deleted' = deleted \cup ({req[r].id} \cap GenIds)
    /\ UNCHANGED <<originals, cache, nextId, uploaded, delStarted, served, authVars>>

Delete(r) ==
    \/ DeleteLoad(r)
    \/ DeleteUnlinkOriginal(r)
    \/ DeleteReaddir(r)
    \/ DeleteUnlinkCache(r)
    \/ DeleteSaveOpen(r)
    \/ DeleteSaveWrite(r)

(* ------------------------------ the system ---------------------------- *)

\* the response has been sent; the slot takes the next request
Close(r) ==
    /\ req[r].pc = "done"
    /\ Set(r, IdleReq)
    /\ UNCHANGED <<metaFile, originals, cache, nextId, uploaded, delStarted, deleted, served, authVars>>

Next ==
    \E r \in Reqs :
        Upload(r) \/ Resolve(r) \/ ListImages(r) \/ GetImage(r) \/ Delete(r) \/ Close(r)

Spec == Init /\ [][Next]_vars

(* ------- the handlers with request validation and I/O errors ---------- *)

\* uploads at and above the size limit
LargePayloads == {[data |-> MaxFileSize, valid |-> TRUE],
                  [data |-> MaxFileSize + 1, valid |-> TRUE]}
\* the declared media types of the uploads
DeclaredTypes == {"image/png", "image/jpeg", "text/plain"}
\* the multipart field that carries the file; "none": the request has no file
Fields == {"image", "file", "none"}

\* upload.single('image') with limits.fileSize and fileFilter, then the
\* handler's check of req.file: the error of the 400 answer, "" when accepted
UploadError(f, m, p) ==
    IF f = "none" THEN "No image file provided"
    ELSE IF f # "image" THEN "Unexpected file field"
    ELSE IF m \notin AllowedMimeTypes THEN "Invalid file type"
    ELSE IF p.data > MaxFileSize THEN "File too large"
    ELSE ""

\* the upload that skips multer's checks
UploadReceiveUnchecked(r) ==
    /\ req[r].pc = "idle"
    /\ \E p \in Payloads \cup LargePayloads, e \in Exts, m \in DeclaredTypes :
         UploadAccepted(r, p, e, m)
    /\ UNCHANGED <<metaFile, cache, uploaded, delStarted, deleted, served, authVars>>

\* POST /api/upload with any file: multer rejects it (the temporary file it
\* may have written is removed by multer), or the handler runs
UploadReceive(r) ==
    /\ req[r].pc = "idle"
    /\ \E f \in Fields, p \in Payloads \cup LargePayloads, e \in Exts, m \in DeclaredTypes :
         IF UploadError(f, m, p) = ""
         THEN UploadAccepted(r, p, e, m)
         ELSE /\ Set(r, [IdleReq EXCEPT !.pc = "done", !.op = "upload",
                                        !.resp = Resp(400, UploadError(f, m, p))])
              /\ UNCHANGED <<nextId, originals>>
    /\ UNCHANGED <<metaFile, cache, uploaded, delStarted, deleted, served, authVars>>

\* sharp(originalPath)...toBuffer() throws although the file is there
ResolveResizeFails(r) ==
    /\ req[r].pc = "rs_resize"
    /\ HasFile(originals, OriginalPath(req[r].id, req[r].ext))
    /\ Finish(r, DecodeFailureAnswer)
    /\ UNCHANGED <<metaFile, originals, cache, nextId, uploaded, delStarted, deleted, served, authVars>>

\* the failed unlink of the original answers the request with an error
DeleteUnlinkOriginalAborts(r) ==
    /\ req[r].pc = "dl_unlink"
    /\ HasFile(originals, OriginalPath(req[r].id, req[r].ext))
    /\ Finish(r, RespError("Failed to delete image", FsError))
    /\ UNCHANGED <<metaFile, originals, cache, nextId, uploaded, delStarted, deleted, served, authVars>>

\* await fs.unlink(originalPath) throws: catch (err) { console.warn(...) }
DeleteUnlinkOriginalFails(r) ==
    /\ req[r].pc = "dl_unlink"
    /\ HasFile(originals, OriginalPath(req[r].id, req[r].ext))
    /\ Set(r, [req[r] EXCEPT !.pc = "dl_readdir", !.origFailed = TRUE])
    /\ UNCHANGED <<metaFile, originals, cache, nextId, uploaded, delStarted, deleted, served, authVars>>

\* await fs.readdir(config.cachePath) throws: the outer catch logs it, no
\* cache file is removed; delete metadataStore.images[imageId]
DeleteReaddirFails(r) ==
    /\ req[r].pc = "dl_readdir"
    /\ Set(r, [req[r] EXCEPT !.pc = "dl_save", !.lsFailed = TRUE,
                             !.store = RemoveRecord(req[r].store, req[r].id)])
    /\ UNCHANGED <<metaFile, originals, cache, nextId, uploaded, delStarted, deleted, served, authVars>>

\* Promise.all(imageCacheFiles.map(file => fs.unlink(...).catch(warn))): the
\* unlinks of the files in F fail, the others are removed
DeleteUnlinkCacheSome(r) ==
    /\ req[r].pc = "dl_unlinkcache"
    /\ \E F \in SUBSET req[r].files \ {{}} :
         /\ cache' = Unlink(cache, req[r].files \ F)
         /\ Set(r, [req[r] EXCEPT !.pc = "dl_save", !.files = {}, !.failed = F,
                                  !.store = RemoveRecord(req[r].store, req[r].id)])
    /\ UNCHANGED <<metaFile, originals, nextId, uploaded, delStarted, deleted, served, authVars>>

\* every other slot is free: the request before has been answered and closed
Alone(r) == \A q \in Reqs \ {r} : req[q].pc = "idle"

\* the first step of each handler when the requests come one at a time
SerialUpload(r) == Alone(r) /\ UploadReceive(r)
SerialResolve(r) == Alone(r) /\ ResolveLoad(r)
SerialList(r) == Alone(r) /\ ListImages(r)
SerialGetImage(r) == Alone(r) /\ GetImage(r)
SerialDelete(r) == Alone(r) /\ DeleteLoad(r)

\* the requests one at a time, with every input and every I/O error
NextSerial ==
    \E r \in Reqs :
        \/ SerialUpload(r)
        \/ UploadDecode(r)
        \/ UploadLoad(r)
        \/ UploadSaveOpen(r)
        \/ UploadSaveWrite(r)
        \/ SerialResolve(r)
        \/ ResolveAccess(r)
        \/ ResolveSendOriginal(r)
        \/ ResolveCacheAccess(r)
        \/ ResolveSendCache(r)
        \/ ResolveResize(r)
        \/ ResolveResizeFails(r)
        \/ ResolveWriteOpen(r)
        \/ ResolveWrite(r)
        \/ SerialList(r)
        \/ SerialGetImage(r)
        \/ SerialDelete(r)
        \/ DeleteUnlinkOriginal(r)
        \/ DeleteUnlinkOriginalFails(r)
        \/ DeleteReaddir(r)
        \/ DeleteReaddirFails(r)
        \/ DeleteUnlinkCache(r)
        \/ DeleteUnlinkCacheSome(r)
        \/ DeleteSaveOpen(r)
        \/ DeleteSaveWrite(r)
        \/ Close(r)

SpecSerial == Init /\ [][NextSerial]_vars

(* ------------- deletes of images with several cached sizes ------------ *)

\* the sizes of the cached variants the deleted images have
StoredDims == {<<w, w>> : w \in 1..(MaxW + 1)}
\* the image every identity was uploaded with
StoredPayload == [data |-> 1, valid |-> TRUE]

\* The server after every identity has been uploaded and answered, and
\* resolves have cached some sizes of each: V[i] are the cached sizes of i.
\* O: the identities whose original is on disk (the others lost it in a delete
\* that could not write the index).
InitDelete ==
    \E V \in [GenIds -> SUBSET StoredDims], O \in SUBSET GenIds :
        /\ metaFile = [ok |-> TRUE,
                       images |-> [i \in GenIds |->
                                     ImageRecord(i, StoredPayload, ".png", "image/png")]]
        /\ originals = [n \in {<<i, ".png">> : i \in O} |-> OriginalBytes(StoredPayload)]
        /\ cache = [k \in {c \in GenIds \X StoredDims : c[2] \in V[c[1]]} |->
                      ResizeWebp(OriginalBytes(StoredPayload), k[2])]
        /\ nextId = MaxIds
        /\ req = [r \in Reqs |-> IdleReq]
        /\ uploaded = [i \in GenIds |->
                         [rec |-> ImageRecord(i, StoredPayload, ".png", "image/png"),
                          bytes |-> OriginalBytes(StoredPayload)]]
        /\ delStarted = {}
        /\ deleted = {}
        /\ served = [k \in {} |-> NoBytes]
        /\ FreshAuth

\* deletes one at a time, every I/O error of a removal a possible outcome
NextDelete ==
    \E r \in Reqs :
        \/ SerialDelete(r)
        \/ DeleteUnlinkOriginal(r)
        \/ DeleteUnlinkOriginalFails(r)
        \/ DeleteReaddir(r)
        \/ DeleteReaddirFails(r)
        \/ DeleteUnlinkCache(r)
        \/ DeleteUnlinkCacheSome(r)
        \/ DeleteSaveOpen(r)
        \/ DeleteSaveWrite(r)
        \/ Close(r)

SpecDelete == InitDelete /\ [][NextDelete]_vars
(* ------------- GET /images/:id/:width/:height: the route -------------- *)

Digits == {"0", "1", "2", "3", "4", "5", "6", "7", "8", "9"}
DigitValue == ("0" :> 0) @@ ("1" :> 1) @@ ("2" :> 2) @@ ("3" :> 3) @@ ("4" :> 4) @@
              ("5" :> 5) @@ ("6" :> 6) @@ ("7" :> 7) @@ ("8" :> 8) @@ ("9" :> 9)
\* the texts of :width and :height, character by character (no text has an
\* "x", so parseInt reads every one of them in radix 10)
RawParams == {<<"1">>, <<"0">>, <<"0", "7">>, <<"5", "0", "0", "0">>, <<"5", "0", "0", "1">>,
              <<"-", "1">>, <<"+", "2">>, <<" ", "3">>, <<"a">>, <<"1", "a">>,
              <<"1", ".", "5">>}

NaN == [nan |-> TRUE, v |-> 0]
Number(n) == [nan |-> FALSE, v |-> n]

RECURSIVE TrimStart(_)
TrimStart(s) == IF s # <<>> /\ Head(s) = " " THEN TrimStart(Tail(s)) ELSE s
RECURSIVE LeadingDigits(_)
LeadingDigits(s) ==
    IF s = <<>> \/ Head(s) \notin Digits THEN <<>> ELSE <<Head(s)>> \o LeadingDigits(Tail(s))
RECURSIVE DecimalValue(_)
DecimalValue(ds) ==
    IF ds = <<>> THEN 0
    ELSE 10 * DecimalValue(SubSeq(ds, 1, Len(ds) - 1)) + DigitValue[ds[Len(ds)]]

\* parseInt(text): white space at the start and one sign are skipped, the
\* longest run of digits that follows is the number, whatever comes after it;
\* NaN when there is no digit
ParseInt(s) ==
    LET t == TrimStart(s)
        signed == t # <<>> /\ Head(t) \in {"-", "+"}
        ds == LeadingDigits(IF signed THEN Tail(t) ELSE t)
    IN  IF ds = <<>> THEN NaN
        ELSE IF signed /\ Head(t) = "-" THEN Number(0 - DecimalValue(ds))
        ELSE Number(DecimalValue(ds))

\* isNaN(width) || isNaN(height) || width <= 0 || height <= 0 ||
\* width > 5000 || height > 5000
InvalidDimensions(width, height) ==
    \/ width.nan \/ height.nan
    \/ width.v <= 0 \/ height.v <= 0
    \/ width.v > MaxDimension \/ height.v > MaxDimension

\* the route handler: 400, or the call serveImage(req, res, width, height),
\* which is the resolve above with dim = <<width, height>>
RouteDims(r) ==
    /\ req[r].pc = "idle"
    /\ \E ws \in RawParams, hs \in RawParams :
         LET width == ParseInt(ws)
             height == ParseInt(hs)
             rq == [IdleReq EXCEPT !.pc = "done", !.op = "route", !.raw = <<ws, hs>>]
         IN  IF InvalidDimensions(width, height)
             THEN Set(r, [rq EXCEPT !.resp = Resp(400, "Invalid dimensions. Max: 5000x5000")])
             ELSE Set(r, [rq EXCEPT !.dim = <<width.v, height.v>>])
    /\ UNCHANGED <<metaFile, originals, cache, nextId, uploaded, delStarted, deleted, served, authVars>>

NextDims == \E r \in Reqs : RouteDims(r) \/ Close(r)

SpecDims == Init /\ [][NextDims]_vars

(* ------------------------------ the claims ---------------------------- *)

InFlight(r) == req[r].pc \notin {"idle", "done"}
Answered(r, op) == req[r].pc = "done" /\ req[r].op = op
\* the variant of an uploaded identity, as resolve generates it
VariantOf(i, d) == ResizeWebp(uploaded[i].bytes, d)

\* C1: simultaneous resolves of one cold key all return the same complete
\* variant bytes, and when they have finished the cache holds the complete
\* variant under that key.  Stated as: every resolve with dimensions that
\* answers 200 carries the complete variant of the uploaded bytes, and with no
\* resolve in flight every cache file is the complete variant.
C1_SimultaneousResolveComplete ==
    /\ \A r \in Reqs :
         (Answered(r, "resolve") /\ req[r].dim # NoDim /\ req[r].resp.status = 200
            /\ req[r].id \in DOMAIN uploaded)
         => req[r].resp.body = VariantOf(req[r].id, req[r].dim)
    /\ (\A r \in Reqs : ~(InFlight(r) /\ req[r].op = "resolve"))
         => \A k \in DOMAIN cache :
              k[1] \in DOMAIN uploaded => cache[k] = VariantOf(k[1], k[2])

\* C2: the variant write is an atomic publish: a resolve that looks at the
\* cache file of its key finds it absent or complete, never present with only
\* part of its bytes written.
C2_AtomicPublish ==
    \A r \in Reqs :
        (req[r].pc \in {"rs_cache", "rs_sendcache"}
           /\ HasFile(cache, CachePath(req[r].id, req[r].dim)))
        => cache[CachePath(req[r].id, req[r].dim)].full

\* C3: once a delete of an identity was answered with success, no original
\* and no cache file of that identity is on disk, and every resolve of it
\* that starts later answers 404.
C3_DeletedIsGone ==
    \A i \in deleted :
        /\ \A n \in DOMAIN originals : n[1] # i
        /\ \A k \in DOMAIN cache : k[1] # i
        /\ \A r \in Reqs :
             (Answered(r, "resolve") /\ req[r].id = i /\ req[r].sawDel)
             => req[r].resp.status = 404

\* C4: index updates for different identities do not corrupt each other:
\* with no upload and no delete in flight, the index holds the record of
\* every uploaded identity no delete was started for, and no record of a
\* deleted identity.
C4_IndexKeepsAllUpdates ==
    (\A r \in Reqs : InFlight(r) => req[r].op \notin {"upload", "delete"})
    => /\ \A i \in DOMAIN uploaded \ delStarted :
            i \in DOMAIN loadMetadata /\ loadMetadata[i] = uploaded[i].rec
       /\ \A i \in deleted : i \notin DOMAIN loadMetadata

\* C5: read-after-write per identity: a get-info, list or resolve that starts
\* after the upload of X was answered with success observes X's complete
\* record, as long as no delete of X was started.
C5_ReadAfterWrite ==
    \A r \in Reqs :
        /\ (Answered(r, "info") /\ req[r].sawUp /\ req[r].id \notin delStarted)
           => /\ req[r].resp.status = 200
              /\ req[r].id \in DOMAIN req[r].resp.images
              /\ req[r].resp.images[req[r].id] = uploaded[req[r].id].rec
        /\ (Answered(r, "resolve") /\ req[r].sawUp /\ req[r].id \notin delStarted)
           => req[r].resp.status # 404
        /\ Answered(r, "list")
           => \A i \in req[r].seen \ delStarted :
                i \in DOMAIN req[r].resp.images /\ req[r].resp.images[i] = uploaded[i].rec

\* C6: no orphaned original: after an upload that answered with an error, no
\* original file exists under the identity allocated to it.
C6_NoOrphanAfterFailedUpload ==
    \A r \in Reqs :
        (Answered(r, "upload") /\ req[r].resp.status # 200)
        => \A n \in DOMAIN originals : n[1] # req[r].id

\* C7: upload writes the blob before the index: every identity in the index
\* (on disk, or in the index an upload is about to save) for which no delete
\* was started has its original file on disk.
C7_BlobBeforeIndex ==
    /\ \A i \in DOMAIN loadMetadata \ delStarted :
         HasFile(originals, OriginalPath(i, loadMetadata[i].extension))
    /\ \A r \in Reqs :
         (req[r].op = "upload" /\ req[r].pc \in {"up_save", "up_write"})
         => \A i \in DOMAIN req[r].store \ delStarted :
              HasFile(originals, OriginalPath(i, req[r].store[i].extension))

\* C7: an identity is in the index, no delete of it was started, and a
\* second upload is about to save its own record
C7_Witness ==
    /\ DOMAIN loadMetadata \ delStarted # {}
    /\ \E r \in Reqs : req[r].pc = "up_write" /\ Cardinality(DOMAIN req[r].store) > 1

\* C8: resolve is idempotent with a cache-hit fast path: when a resolve with
\* dimensions starts after a resolve of the same key answered 200, with no
\* delete of the identity started, and answers 200 itself, it returns the
\* same bytes as that earlier answer and serves them from the cache file.
C8_SecondResolveFromCache ==
    \A r \in Reqs :
        (Answered(r, "resolve") /\ req[r].dim # NoDim /\ req[r].prev # NoBytes
           /\ req[r].id \notin delStarted /\ req[r].resp.status = 200)
        => /\ req[r].resp.via = "cache"
           /\ req[r].resp.body = req[r].prev

\* a step of request r: the only steps that change r's slot
StepOf(r) == req'[r] # req[r]
FilesUnchanged == UNCHANGED <<metaFile, originals, cache>>

\* C9: a resolve of an identity that has no record in the index answers 404
\* and changes neither the index, the originals nor the cache: an unknown
\* generated identity is answered by the index check; a name every object
\* inherits passes that check, finds no original and is answered 404 as well.
C9_UnknownIdentityNotFound ==
    [][\A r \in Reqs :
         /\ (req[r].pc = "idle" /\ req'[r].op = "resolve"
               /\ req'[r].id \notin DOMAIN loadMetadata)
            => /\ FilesUnchanged
               /\ IF req'[r].id = ProtoKey
                  THEN req'[r].pc = "rs_access" /\ req'[r].ext = NoExt
                  ELSE req'[r].pc = "done" /\ req'[r].resp = Resp(404, "Image not found")
         /\ (req[r].op = "resolve" /\ req[r].id = ProtoKey /\ InFlight(r) /\ StepOf(r))
            => /\ FilesUnchanged
               /\ req'[r].pc = "done" /\ req'[r].resp.status = 404
      ]_vars

\* C9: a resolve was answered 404 for a generated identity that is not in
\* the index while a cache file of the requested key exists
C9_Witness ==
    \E r \in Reqs :
        /\ Answered(r, "resolve") /\ req[r].resp = Resp(404, "Image not found")
        /\ req[r].id \in GenIds /\ req[r].dim # NoDim
        /\ HasFile(cache, CachePath(req[r].id, req[r].dim))

\* C10: round trip: a resolve without dimensions that starts after the upload
\* of X was answered with success returns exactly the uploaded bytes, as long
\* as no delete of X was started; and only the delete of X changes the
\* original file of X.
C10_RoundTrip ==
    \A r \in Reqs :
        (Answered(r, "resolve") /\ req[r].dim = NoDim /\ req[r].sawUp
           /\ req[r].id \notin delStarted)
        => /\ req[r].resp.status = 200
           /\ req[r].resp.body = uploaded[req[r].id].bytes

\* a delete that has not begun to write the index, and one that has begun or
\* finished the write of the index without the identity
DeleteBeforeIndex(r) ==
    req[r].op = "delete" /\ req[r].pc \in {"dl_unlink", "dl_readdir", "dl_unlinkcache", "dl_save"}
DeleteIndexGone(r) ==
    /\ req[r].op = "delete"
    /\ req[r].pc = "dl_write" \/ (req[r].pc = "done" /\ req[r].resp.status = 200)
OriginalOnDisk(i) == \E n \in DOMAIN originals : n[1] = i

\* C11: deletion order: the delete removes the original and the cached
\* variants first and the index entry last: until it writes the index the
\* entry is there in full, and once the index entry is gone neither the
\* original nor a variant that existed when the delete started is on disk.
C11_IndexEntryLast ==
    \A r \in Reqs :
        /\ (DeleteBeforeIndex(r) /\ req[r].id \in GenIds)
           => /\ req[r].id \in DOMAIN loadMetadata
              /\ loadMetadata[req[r].id] = uploaded[req[r].id].rec
        /\ DeleteIndexGone(r) => ~OriginalOnDisk(req[r].id)
        /\ (DeleteIndexGone(r) /\ req[r].pc = "dl_write")
           => \A k \in req[r].had : ~HasFile(cache, k)

\* C11 as the code has it: the same order, and once the index entry is gone
\* the original and the variants that existed when the delete started are
\* gone except the files whose removal failed (all the variants when the
\* listing of the cache failed).
C11_IndexEntryLastUnlessFailed ==
    \A r \in Reqs :
        /\ (DeleteBeforeIndex(r) /\ req[r].id \in GenIds)
           => /\ req[r].id \in DOMAIN loadMetadata
              /\ loadMetadata[req[r].id] = uploaded[req[r].id].rec
        /\ DeleteIndexGone(r) => (~OriginalOnDisk(req[r].id) \/ req[r].origFailed)
        /\ (DeleteIndexGone(r) /\ req[r].pc = "dl_write")
           => \A k \in req[r].had :
                ~HasFile(cache, k) \/ k \in req[r].failed \/ req[r].lsFailed

\* C11: a delete that met no error is writing the index, and the identity had
\* a cached variant when the delete started
C11_Witness ==
    \E r \in Reqs :
        /\ req[r].op = "delete" /\ req[r].pc = "dl_write" /\ req[r].had # {}
        /\ ~req[r].origFailed /\ ~req[r].lsFailed /\ req[r].failed = {}
        /\ ~OriginalOnDisk(req[r].id)

\* C12: deletion converges under per-file errors: when the removal of the
\* original fails, or the listing of the cache fails, or the removal of a
\* variant fails, the delete goes on: no removal step answers the request,
\* every listed variant whose removal did not fail is removed, the index is
\* written without the identity and the answer is the success.
C12_DeleteConverges ==
    [][\A r \in Reqs :
         (req[r].op = "delete" /\ StepOf(r))
         => /\ (req[r].pc \in {"dl_unlink", "dl_readdir", "dl_unlinkcache"})
               => req'[r].pc \in {"dl_readdir", "dl_unlinkcache", "dl_save"}
            /\ (req[r].pc = "dl_unlinkcache")
               => \A k \in req[r].files \ req'[r].failed : ~HasFile(cache', k)
            /\ (req'[r].pc = "dl_save") => req[r].id \notin DOMAIN req'[r].store
            /\ (req[r].pc = "dl_write")
               => /\ req'[r].pc = "done"
                  /\ req'[r].resp = Resp(200, "Image deleted")
                  /\ req[r].id \notin DOMAIN metaFile'.images
      ]_vars

\* C12: a delete is writing the index after the removal of the original and
\* of one variant failed; the other variants of the identity are removed
C12_Witness ==
    \E r \in Reqs :
        /\ req[r].op = "delete" /\ req[r].pc = "dl_write"
        /\ req[r].origFailed /\ OriginalOnDisk(req[r].id)
        /\ req[r].failed # {} /\ req[r].had \ req[r].failed # {}
        /\ \A k \in req[r].failed : HasFile(cache, k)
        /\ \A k \in req[r].had \ req[r].failed : ~HasFile(cache, k)

\* C13: a delete of an identity that has no record in the index is answered
\* 404 at once and changes nothing: no file is removed and the index file is
\* not rewritten.
C13_DeleteUnknownChangesNothing ==
    [][\A r \in Reqs :
         (req[r].pc = "idle" /\ req'[r].op = "delete"
            /\ req'[r].id \notin DOMAIN loadMetadata)
         => /\ req'[r].pc = "done"
            /\ req'[r].resp = Resp(404, "Image not found")
            /\ FilesUnchanged
      ]_vars

\* a text that denotes a positive integer: white space at the start and a
\* plus sign allowed, then digits only, and a value above zero
UnsignedPart(s) ==
    LET t == TrimStart(s) IN IF t # <<>> /\ Head(t) = "+" THEN Tail(t) ELSE t
PositiveIntegerText(s) ==
    /\ UnsignedPart(s) # <<>>
    /\ LeadingDigits(UnsignedPart(s)) = UnsignedPart(s)
    /\ DecimalValue(UnsignedPart(s)) > 0
ValidDimensionText(s) ==
    PositiveIntegerText(s) /\ DecimalValue(UnsignedPart(s)) <= MaxDimension

\* C14: a resolve with dimensions is rejected with 400 exactly when the width
\* or the height is not a positive integer or is greater than 5000; accepted
\* sizes are passed on as given.
C14_DimensionValidation ==
    \A r \in Reqs :
        Answered(r, "route")
        => /\ (req[r].resp.status = 400)
                <=> ~(ValidDimensionText(req[r].raw[1]) /\ ValidDimensionText(req[r].raw[2]))
           /\ (req[r].resp.status # 400)
                => req[r].dim = <<DecimalValue(UnsignedPart(req[r].raw[1])),
                                  DecimalValue(UnsignedPart(req[r].raw[2]))>>

\* C15: a resolve without dimensions serves the original verbatim: for an
\* identity of the index whose original file is on disk it answers 200 with
\* the bytes as uploaded and the media type of the record; none of its steps
\* is a step of the variant path, and none changes a file.
C15_OriginalVerbatim ==
    [][\A r \in Reqs :
         (req'[r].op = "resolve" /\ req'[r].dim = NoDim /\ StepOf(r))
         => /\ FilesUnchanged
            /\ req'[r].pc \in {"rs_access", "rs_sendorig", "done"}
            /\ (req[r].pc = "idle" /\ req'[r].id \in DOMAIN loadMetadata)
               => /\ req'[r].pc = "rs_access"
                  /\ req'[r].mime = loadMetadata[req'[r].id].mimeType
            /\ (req[r].pc = "rs_access"
                  /\ HasFile(originals, OriginalPath(req[r].id, req[r].ext)))
               => req'[r].pc = "rs_sendorig"
            /\ (req[r].pc = "rs_sendorig"
                  /\ HasFile(originals, OriginalPath(req[r].id, req[r].ext)))
               => req'[r].resp.status = 200
            /\ (req'[r].pc = "done" /\ req'[r].resp.status = 200)
               => /\ req'[r].resp.via = "original"
                  /\ req'[r].id \in DOMAIN uploaded
                  /\ req'[r].resp.body = uploaded[req'[r].id].bytes
                  /\ req'[r].resp.ctype = uploaded[req'[r].id].rec.mimeType
      ]_vars

\* C15: the original of an image uploaded as image/jpeg was served while a
\* cached variant of the identity is on disk
C15_Witness ==
    \E r \in Reqs :
        /\ Answered(r, "resolve") /\ req[r].dim = NoDim /\ req[r].resp.status = 200
        /\ req[r].resp.ctype = "image/jpeg"
        /\ req[r].resp.body = uploaded[req[r].id].bytes
        /\ \E k \in DOMAIN cache : k[1] = req[r].id /\ cache[k].full

\* C16: every resolve answered 200 carries the cache directive public,
\* max-age of one year, whether it sends the original, a cached variant or a
\* fresh one; every variant answer carries the content type image/webp
\* whatever the media type of the original.
C16_SameCacheDirective ==
    \A r \in Reqs :
        (Answered(r, "resolve") /\ req[r].resp.status = 200)
        => /\ req[r].resp.cc = <<"public", "max-age", 365 * 24 * 60 * 60>>
           /\ req[r].resp.via \in {"original", "cache", "fresh"}
           /\ (req[r].dim = NoDim) <=> (req[r].resp.via = "original")
           /\ (req[r].dim # NoDim) => req[r].resp.ctype = "image/webp"

\* C16: a freshly generated variant of an original uploaded as image/jpeg was
\* served
C16_Witness ==
    \E r \in Reqs :
        /\ Answered(r, "resolve") /\ req[r].resp.status = 200
        /\ req[r].resp.via = "fresh" /\ req[r].resp.ctype = "image/webp"
        /\ req[r].id \in DOMAIN uploaded
        /\ uploaded[req[r].id].rec.mimeType = "image/jpeg"

\* C17: a resolve of an identity that passes the index check but whose
\* original file is missing answers 404 "Image file not found", which is not
\* the answer to an unknown identity, and it changes no file: no variant is
\* generated or written.
C17_MissingOriginalNotFound ==
    [][\A r \in Reqs :
         /\ (req[r].op = "resolve" /\ req[r].pc = "rs_access" /\ StepOf(r)
               /\ ~HasFile(originals, OriginalPath(req[r].id, req[r].ext)))
            => /\ req'[r].pc = "done"
               /\ req'[r].resp = Resp(404, "Image file not found")
               /\ req'[r].buf = NoBytes
               /\ FilesUnchanged
         /\ (req[r].pc = "idle" /\ req'[r].op = "resolve" /\ req'[r].pc = "done")
            => /\ req'[r].resp.status = 404
               /\ req'[r].resp # Resp(404, "Image file not found")
      ]_vars

\* C17: a resolve with dimensions of an identity that is in the index was
\* answered 404 for the missing original, and no variant of it is cached
C17_Witness ==
    \E r \in Reqs :
        /\ Answered(r, "resolve") /\ req[r].resp = Resp(404, "Image file not found")
        /\ req[r].dim # NoDim
        /\ req[r].id \in DOMAIN loadMetadata
        /\ ~OriginalOnDisk(req[r].id)
        /\ ~HasFile(cache, CachePath(req[r].id, req[r].dim))

\* what tells one kind of error from another: the status and the error field
\* (the message field is the text of the exception)
ErrorKind(resp) == <<resp.status, resp.msg>>

\* C18: resolve surfaces its failures as distinct error kinds: the answer to
\* a decode failure of the original differs in kind from the answer to a
\* failed write of the variant, and from the 404 and 400 answers.
C18_DistinctErrorKinds ==
    \A r \in Reqs :
        (Answered(r, "resolve") /\ req[r].resp = DecodeFailureAnswer)
        => /\ ErrorKind(req[r].resp) # ErrorKind(WriteFailureAnswer)
           /\ req[r].resp.status \notin {400, 404}

\* an upload that passed the validation: its declared media type is of the
\* allow-list and its size is within the maximum of 50 MB
ValidUpload(m, size) ==
    /\ m \in {"image/jpeg", "image/png", "image/webp", "image/gif"}
    /\ size <= 50 * 1024 * 1024
OnlyValidUploads ==
    /\ \A r \in Reqs :
         (req[r].op = "upload" /\ InFlight(r)) => ValidUpload(req[r].mime, req[r].payload.data)
    /\ \A i \in DOMAIN loadMetadata : ValidUpload(loadMetadata[i].mimeType, loadMetadata[i].size)
    /\ \A n \in DOMAIN originals : originals[n].data <= 50 * 1024 * 1024

\* C19: upload validates before it commits: an upload that is rejected is
\* answered 400, allocates no identity and changes no file; and no upload with
\* a media type outside the allow-list or a size above the maximum gets into
\* the handler, onto the disk or into the index.
C19_ValidateBeforeCommit ==
    [][/\ \A r \in Reqs :
            (req[r].pc = "idle" /\ req'[r].op = "upload" /\ req'[r].pc = "done")
            => /\ req'[r].resp.status = 400
               /\ nextId' = nextId
               /\ FilesUnchanged
       /\ OnlyValidUploads'
      ]_vars

\* C19: an upload was rejected as too large while the index holds an image of
\* exactly the maximum size
C19_Witness ==
    \E r \in Reqs :
        /\ Answered(r, "upload") /\ req[r].resp = Resp(400, "File too large")
        /\ \E i \in DOMAIN loadMetadata : loadMetadata[i].size = MaxFileSize

\* a step of request r that completes a write of the index file
IndexWritten(r) == req[r].pc \in {"up_write", "dl_write"} /\ StepOf(r)

\* C21: records are write-once.  Every step of a resolve, a list or a
\* get-info leaves the index and the originals unchanged, and a step of a
\* resolve changes at most the cache file of the requested key; and every
\* completed write of the index keeps, unchanged, the record of every
\* identity whose upload was answered with success and that no delete has
\* removed, unless the write is that of a delete of this identity.
C21_WriteOnce ==
    [][\A r \in Reqs :
         /\ (StepOf(r) /\ req'[r].op \in {"resolve", "list", "info"})
            => /\ UNCHANGED <<metaFile, originals>>
               /\ \A k \in DOMAIN cache \cup DOMAIN cache' :
                    k # CachePath(req'[r].id, req'[r].dim)
                    => /\ k \in DOMAIN cache /\ k \in DOMAIN cache'
                       /\ cache'[k] = cache[k]
         /\ IndexWritten(r)
            => \A i \in DOMAIN uploaded \ deleted :
                 (req[r].op = "delete" /\ req[r].id = i)
                 \/ (i \in DOMAIN metaFile'.images /\ metaFile'.images[i] = uploaded[i].rec)
      ]_vars

\* the step of request r in which its handler runs loadMetadata
ReadsIndex(r) ==
    /\ StepOf(r)
    /\ \/ req[r].pc = "idle" /\ req'[r].op \in {"resolve", "list", "info", "delete"}
       \/ req[r].pc = "up_load"
\* a request that has opened the index file for writing and not yet written it
WritingIndex(w) == req[w].pc \in {"up_write", "dl_write"}

\* C22: index writes are atomic for readers.  A handler that runs
\* loadMetadata finds the index file complete, never truncated by a write in
\* progress; and a resolve of an identity that the write in progress keeps in
\* the index, and for which no delete was started, is not answered 404.
C22_AtomicIndexWrite ==
    [][\A r \in Reqs :
         ReadsIndex(r)
         => /\ metaFile.ok
            /\ \A w \in Reqs \ {r} :
                 (WritingIndex(w) /\ req'[r].op = "resolve"
                    /\ req'[r].id \in DOMAIN req[w].store \ delStarted)
                 => req'[r].resp.status # 404
      ]_vars

\* C28: a resolve in flight cannot undo a delete: whenever no request is in
\* flight, so that every resolve and every delete has finished, the cache
\* holds no variant file of an identity whose delete was answered with
\* success (such a file would belong to an identity that is not in the index).
C28_ResolveCannotUndoDelete ==
    (\A r \in Reqs : ~InFlight(r))
    => \A k \in DOMAIN cache : k[1] \notin deleted

\* C29: a deleted identity never reappears: in every state after a delete of
\* an identity was answered with success, the index on disk holds no record
\* of that identity.
C29_DeletedNeverReappears ==
    \A i \in deleted : i \notin DOMAIN metaFile.images

\* the files of directory dir that do not belong to identity a are the same,
\* with the same bytes, after the step
OthersKept(dir, dirAfter, a) ==
    /\ {n \in DOMAIN dir : n[1] # a} = {n \in DOMAIN dirAfter : n[1] # a}
    /\ \A n \in DOMAIN dir : n[1] # a => dirAfter[n] = dir[n]

\* C30: delete is confined to its identity.  No step of a delete of a
\* generated identity A creates, removes or changes an original or a cache file of another
\* identity; the index it writes holds, unchanged, every record of another
\* identity that the index held when the write began, and no record more.
C30_DeleteConfined ==
    [][\A r \in Reqs :
         (req'[r].op = "delete" /\ req'[r].id \in GenIds /\ StepOf(r))
         => /\ OthersKept(originals, originals', req'[r].id)
            /\ OthersKept(cache, cache', req'[r].id)
            /\ (req[r].pc = "dl_save" /\ metaFile.ok)
               => /\ DOMAIN req[r].store \ {req[r].id} = DOMAIN metaFile.images \ {req[r].id}
                  /\ \A b \in DOMAIN req[r].store :
                       b # req[r].id => req[r].store[b] = metaFile.images[b]
            /\ (req[r].pc = "dl_write") => metaFile' = saveMetadataWrite(req[r].store)
            /\ (req[r].pc \notin {"dl_save", "dl_write"}) => UNCHANGED metaFile
      ]_vars

(* ------------------ the pixel size of a generated variant ------------- *)

\* widths and heights of originals and of requests
Lengths == {1, 2, 3, 7, 50, 100, 1000, 2000}
PixelSizes == Lengths \X Lengths

\* std::round(a / b) for positive integers: halves go up
Round(a, b) == (2 * a + b) \div (2 * b)
\* a shrink factor is a fraction <<numerator, denominator>>
Greater(f, g) == f[1] * g[2] > g[1] * f[2]
Larger(f, g) == IF Greater(f, g) THEN f ELSE g
Smaller(f, g) == IF Greater(f, g) THEN g ELSE f

\* fit: 'cover': the smaller of the two shrink factors is used for both axes
FitCover(s, d) ==
    LET shrink == Larger(<<1, 1>>, Smaller(<<s[1], d[1]>>, <<s[2], d[2]>>))
        hshrink == Smaller(shrink, <<s[1], 1>>)
        vshrink == Smaller(shrink, <<s[2], 1>>)
    IN  <<Round(s[1] * hshrink[2], hshrink[1]), Round(s[2] * vshrink[2], vshrink[1])>>
\* sharp(original).resize(width, height, { fit: 'inside', withoutEnlargement: true })
\* on an original of pixel size s: hshrink = W0 / width, vshrink = H0 / height;
\* inside: the larger of the two is used for both axes; withoutEnlargement:
\* a factor below 1 becomes 1; a factor never exceeds the length of its axis;
\* the output is round(W0 / hshrink) x round(H0 / vshrink)
FitInside(s, d) ==
    LET shrink == Larger(<<1, 1>>, Larger(<<s[1], d[1]>>, <<s[2], d[2]>>))
        hshrink == Smaller(shrink, <<s[1], 1>>)
        vshrink == Smaller(shrink, <<s[2], 1>>)
    IN  <<Round(s[1] * hshrink[2], hshrink[1]), Round(s[2] * vshrink[2], vshrink[1])>>

\* the generation branch of serveImage for an original of pixel size s and a
\* valid request d: the resized buffer is the body of the answer
ResolveResizeSized(r) ==
    /\ req[r].pc = "idle"
    /\ Alone(r)
    /\ \E s \in PixelSizes, d \in PixelSizes :
         LET out == FitInside(s, d)
             resizedBuffer == [data |-> 1, valid |-> TRUE, w |-> out[1], h |-> out[2],
                               full |-> TRUE]
         IN  Set(r, [IdleReq EXCEPT !.pc = "done", !.op = "resize", !.dim = d, !.size = s,
                                    !.resp = WithHeaders(RespBody(resizedBuffer, "fresh"),
                                                         WebpType)])
    /\ UNCHANGED <<metaFile, originals, cache, nextId, uploaded, delStarted, deleted, served, authVars>>

NextResize == \E r \in Reqs : ResolveResizeSized(r) \/ Close(r)

SpecResize == Init /\ [][NextResize]_vars

\* C27: no enlargement, fit inside: the variant generated from an original of
\* pixel size W0 x H0 for a valid request (w, h) is at least one pixel wide
\* and high, at most w and at most W0 wide, and at most h and at most H0 high;
\* an original of 2000 x 1000 requested at 100 x 100 gives 100 x 50.
C27_FitInsideNoEnlargement ==
    \A r \in Reqs :
        Answered(r, "resize")
        => /\ req[r].resp.body.w \in 1..req[r].dim[1]
           /\ req[r].resp.body.w <= req[r].size[1]
           /\ req[r].resp.body.h \in 1..req[r].dim[2]
           /\ req[r].resp.body.h <= req[r].size[2]
           /\ (req[r].size = <<2000, 1000>> /\ req[r].dim = <<100, 100>>)
              => (req[r].resp.body.w = 100 /\ req[r].resp.body.h = 50)

\* C27: a variant was generated from an original of 2000 x 1000 for the
\* request 100 x 100, and it is 100 x 50
C27_Witness ==
    /\ \E r \in Reqs :
         /\ Answered(r, "resize")
         /\ req[r].size = <<2000, 1000>> /\ req[r].dim = <<100, 100>>
         /\ req[r].resp.body.w = 100 /\ req[r].resp.body.h = 50

(* ---------------- the routes behind validateApiKey -------------------- *)

\* POST /api/upload, GET /api/images, GET /api/images/:id, DELETE /api/images/:id
ManagementOps == {"upload", "list", "info", "delete"}

\* the server with no request in any slot
InitGate ==
    /\ metaFile = [ok |-> TRUE, images |-> EmptyStore]
    /\ originals = [n \in {} |-> NoBytes]
    /\ cache = [n \in {} |-> NoBytes]
    /\ nextId = 0
    /\ req = [r \in Reqs |-> IdleReq]
    /\ uploaded = [i \in {} |-> NoBytes]
    /\ delStarted = {}
    /\ deleted = {}
    /\ served = [k \in {} |-> NoBytes]
    /\ cred = [r \in Reqs |-> NoRequest]
    /\ usersFile = saveUsers([u \in {"admin"} |-> DefaultAdmin])
    /\ tempSessions = [t \in {} |-> 0]
    /\ pendingTotp = [u \in {} |-> NoSecret]
    /\ now = 0
    /\ nextUuid = 0
    /\ nextSecret = 0
    /\ boot = Listening

\* the headers of the requests to the image routes: a request sends a token,
\* good or bad, or an API key, right or wrong, or a bad token with a key, or
\* nothing
GateCredentials ==
    {c \in [arrived : {TRUE}, token : {NoToken, generateToken("admin"), BadToken("admin")},
            apiKey : ApiKeys] : c.token.valid => c.apiKey = NoKey}

\* a request arrives with its headers
Arrive(r) ==
    /\ req[r].pc = "idle"
    /\ ~cred[r].arrived
    /\ Alone(r)
    /\ \E c \in GateCredentials : cred' = [cred EXCEPT ![r] = c]
    /\ UNCHANGED <<metaFile, originals, cache, nextId, req, uploaded, delStarted, deleted, served,
                   usersFile, tempSessions, pendingTotp, now, nextUuid, nextSecret, boot>>

\* validateToken: res.status(401).json({ error: 'Unauthorized. ...' }), the
\* handler of the route is not called
Unauthorized(r) ==
    /\ req[r].pc = "idle"
    /\ cred[r].arrived
    /\ ~validateToken(cred[r])
    /\ \E op \in ManagementOps :
         Set(r, [IdleReq EXCEPT !.pc = "done", !.op = op,
                                !.resp = Resp(401, "Unauthorized. Invalid or missing authentication token.")])
    /\ UNCHANGED <<metaFile, originals, cache, nextId, uploaded, delStarted, deleted, served, authVars>>

\* validateToken calls next(): the handler of the route runs
GatedUpload(r) == cred[r].arrived /\ validateToken(cred[r]) /\ Alone(r) /\ UploadRename(r)
GatedList(r) == cred[r].arrived /\ validateToken(cred[r]) /\ Alone(r) /\ ListImages(r)
GatedGetImage(r) == cred[r].arrived /\ validateToken(cred[r]) /\ Alone(r) /\ GetImage(r)
GatedDelete(r) == cred[r].arrived /\ validateToken(cred[r]) /\ Alone(r) /\ DeleteLoad(r)
\* app.get('/images/:id'), app.get('/images/:id/:width/:height'): no middleware
OpenResolve(r) == cred[r].arrived /\ Alone(r) /\ ResolveLoad(r)

\* the response has been sent and the request is gone
Depart(r) ==
    /\ req[r].pc = "done"
    /\ Set(r, IdleReq)
    /\ cred' = [cred EXCEPT ![r] = NoRequest]
    /\ UNCHANGED <<metaFile, originals, cache, nextId, uploaded, delStarted, deleted, served,
                   usersFile, tempSessions, pendingTotp, now, nextUuid, nextSecret, boot>>

NextGate ==
    \E r \in Reqs :
        \/ Arrive(r)
        \/ Unauthorized(r)
        \/ GatedUpload(r)
        \/ UploadDecode(r)
        \/ UploadLoad(r)
        \/ UploadSaveOpen(r)
        \/ UploadSaveWrite(r)
        \/ OpenResolve(r)
        \/ ResolveAccess(r)
        \/ ResolveSendOriginal(r)
        \/ ResolveCacheAccess(r)
        \/ ResolveSendCache(r)
        \/ ResolveResize(r)
        \/ ResolveWriteOpen(r)
        \/ ResolveWrite(r)
        \/ GatedList(r)
        \/ GatedGetImage(r)
        \/ GatedDelete(r)
        \/ DeleteUnlinkOriginal(r)
        \/ DeleteReaddir(r)
        \/ DeleteUnlinkCache(r)
        \/ DeleteSaveOpen(r)
        \/ DeleteSaveWrite(r)
        \/ Depart(r)

SpecGate == InitGate /\ [][NextGate]_vars

\* the request carries a token that jwt.verify accepts, or the configured key
CarriesValidJwt(c) == c.token.sent /\ c.token.valid
CarriesApiKey(c) == c.apiKey = ConfiguredApiKey

MaxSecrets == 2
Secrets == 1..MaxSecrets
\* the records users.json can hold for user u: TOTP never set up, set up and
\* enabled, or disabled again
UserRecords(u) ==
    {[username |-> u, passwordHash |-> hashPassword(p), totpSecret |-> x[1], totpEnabled |-> x[2]] :
       p \in Passwords, x \in {<<NoSecret, FALSE>>} \cup (Secrets \X {TRUE})}
\* the names of the users a users.json may hold when the process starts
StoredNames == UserNames \cup {"bob"}
\* the users objects over these names
UsersObjects ==
    UNION {{f \in [N -> UNION {UserRecords(u) : u \in N}] : \A u \in N : f[u].username = u} :
             N \in SUBSET StoredNames}

\* the process is started: users.json is missing or unreadable, or holds a
\* users object, possibly empty; createDefaultAdmin has not run yet
InitStart ==
    /\ metaFile = [ok |-> TRUE, images |-> EmptyStore]
    /\ originals = [n \in {} |-> NoBytes]
    /\ cache = [n \in {} |-> NoBytes]
    /\ nextId = 0
    /\ req = [r \in Reqs |-> IdleReq]
    /\ uploaded = [i \in {} |-> NoBytes]
    /\ delStarted = {}
    /\ deleted = {}
    /\ served = [k \in {} |-> NoBytes]
    /\ cred = [r \in Reqs |-> NoRequest]
    /\ usersFile \in {[ok |-> FALSE, users |-> EmptyUsers]} \cup {saveUsers(f) : f \in UsersObjects}
    /\ tempSessions = [t \in {} |-> 0]
    /\ pendingTotp = [u \in {} |-> NoSecret]
    /\ now = 0
    /\ nextUuid = 0
    /\ nextSecret = 0
    /\ boot = [pc |-> "start", users |-> EmptyUsers]

BootStep(b) ==
    /\ boot' = b
    /\ UNCHANGED <<metaFile, originals, cache, nextId, req, uploaded, delStarted, deleted, served,
                   cred, tempSessions, pendingTotp, now, nextUuid, nextSecret>>

\* createDefaultAdmin without the test that no user exists
CreateAdminLoadAlways ==
    /\ boot.pc = "start"
    /\ BootStep([pc |-> "hash", users |-> loadUsers])
    /\ UNCHANGED usersFile
\* users = await loadUsers(); if (Object.keys(users).length === 0) { ... }
CreateAdminLoad ==
    /\ boot.pc = "start"
    /\ IF DOMAIN loadUsers = {}
       THEN BootStep([pc |-> "hash", users |-> loadUsers])
       ELSE BootStep([Listening EXCEPT !.users = loadUsers])
    /\ UNCHANGED usersFile

\* hashedPassword = await hashPassword(defaultPassword); users.admin = {...}
CreateAdminHash ==
    /\ boot.pc = "hash"
    /\ BootStep([pc |-> "save",
                 users |-> [u \in DOMAIN boot.users \cup {"admin"} |->
                              IF u = "admin" THEN DefaultAdmin ELSE boot.users[u]]])
    /\ UNCHANGED usersFile

\* await saveUsers(users): the open of fs.writeFile
CreateAdminSaveOpen ==
    /\ boot.pc = "save"
    /\ usersFile' = [ok |-> FALSE, users |-> EmptyUsers]
    /\ BootStep([boot EXCEPT !.pc = "write"])

\* the write of fs.writeFile; createDefaultAdmin and initStorage return
CreateAdminSaveWrite ==
    /\ boot.pc = "write"
    /\ usersFile' = saveUsers(boot.users)
    /\ BootStep([boot EXCEPT !.pc = "listening"])

\* fs.writeFile cannot open users.json: initStorage logs and calls process.exit(1)
CreateAdminSaveFails ==
    /\ boot.pc = "save"
    /\ BootStep([boot EXCEPT !.pc = "exit"])
    /\ UNCHANGED usersFile

NextStart ==
    \/ CreateAdminLoad
    \/ CreateAdminHash
    \/ CreateAdminSaveOpen
    \/ CreateAdminSaveFails
    \/ CreateAdminSaveWrite

SpecStart == InitStart /\ [][NextStart]_vars

\* C26: the default admin is created at start-up only if no users exist.
\* createDefaultAdmin on a users store with at least one user takes one step
\* and leaves users.json as it is; on a store with no user it writes a users
\* object that holds exactly the user admin, with no TOTP secret and TOTP
\* disabled; and once the server listens the store holds a user.
C26_DefaultAdminOnlyIfNoUsers ==
    [][/\ (boot.pc = "start" /\ DOMAIN loadUsers # {})
          => (boot'.pc = "listening" /\ UNCHANGED usersFile)
       /\ (boot'.pc = "listening" /\ usersFile' # usersFile)
          => /\ DOMAIN usersFile'.users = {"admin"}
             /\ usersFile'.users["admin"].username = "admin"
             /\ usersFile'.users["admin"].totpEnabled = FALSE
             /\ usersFile'.users["admin"].totpSecret = NoSecret
             /\ verifyPassword(DefaultPassword, usersFile'.users["admin"].passwordHash)
       /\ (boot'.pc # "listening" /\ usersFile' # usersFile) => DOMAIN loadUsers = {}
       /\ (boot'.pc = "listening") => (usersFile'.ok /\ DOMAIN usersFile'.users # {})
      ]_vars

\* C26: the server listens after createDefaultAdmin found no user and wrote
\* the admin user
C26_Witness ==
    /\ boot.pc = "listening"
    /\ boot.users = [u \in {"admin"} |-> DefaultAdmin]
    /\ usersFile = saveUsers(boot.users)

(* -------------------- the authentication routes ----------------------- *)

MaxSessions == 2
\* expiresAt: Date.now() + 5 * 60 * 1000
TempSessionLifetime == 5 * 60 * 1000
\* the instants at which something happens
Instants == {0, 1, TempSessionLifetime, TempSessionLifetime + 1, 2 * TempSessionLifetime + 2}

\* a name that users.json does not hold, and a property name every object inherits
Stranger == "mallory"
ProtoName == "constructor"
\* users[username] as a truth value
HasUser(users, u) == u \in DOMAIN users \/ u = ProtoName
\* the TOTP codes a request may send: the code of a secret, or a wrong one
Codes == Secrets \cup {WrongCode}
\* verifyTotpToken that accepts every code
verifyTotpTokenAny(secret, token) == TRUE
\* verifyTotpToken(secret, token) = speakeasy.totp.verify
verifyTotpToken(secret, token) == secret # NoSecret /\ token = secret

\* the headers of the requests to the authentication routes
AuthCredentials ==
    {c \in [arrived : {TRUE}, token : Tokens \ {BadToken("alice")},
            apiKey : {NoKey, ConfiguredApiKey}] : c.token.sent => c.apiKey = NoKey}

\* the server listens; users.json holds the admin and a second user, none
\* with TOTP
InitAuth ==
    /\ metaFile = [ok |-> TRUE, images |-> EmptyStore]
    /\ originals = [n \in {} |-> NoBytes]
    /\ cache = [n \in {} |-> NoBytes]
    /\ nextId = 0
    /\ req = [r \in Reqs |-> IdleReq]
    /\ uploaded = [i \in {} |-> NoBytes]
    /\ delStarted = {}
    /\ deleted = {}
    /\ served = [k \in {} |-> NoBytes]
    /\ cred = [r \in Reqs |-> NoRequest]
    /\ usersFile = saveUsers([u \in UserNames |->
                                IF u = "admin" THEN DefaultAdmin
                                ELSE [DefaultAdmin EXCEPT !.username = u,
                                                          !.passwordHash = hashPassword("hunter2")]])
    /\ tempSessions = [t \in {} |-> 0]
    /\ pendingTotp = [u \in {} |-> NoSecret]
    /\ now = 0
    /\ nextUuid = 0
    /\ nextSecret = 0
    /\ boot = Listening

\* the image store is not touched by the authentication routes
ImagesUnchanged ==
    UNCHANGED <<metaFile, originals, cache, nextId, uploaded, delStarted, deleted, served, boot>>

\* res.status(s).json({ error: m }) of an authentication route
AuthAnswer(r, rq, resp) == Set(r, [rq EXCEPT !.pc = "done", !.users = EmptyUsers, !.resp = resp])

\* time passes
Tick ==
    /\ \E t \in Instants : t > now /\ now' = t
    /\ UNCHANGED <<metaFile, originals, cache, nextId, req, uploaded, delStarted, deleted, served,
                   cred, usersFile, tempSessions, pendingTotp, nextUuid, nextSecret, boot>>

\* POST /api/auth/login: the body is checked, users = await loadUsers(),
\* user = users[username]
LoginLoad(r) ==
    /\ req[r].pc = "idle"
    /\ \E u \in UserNames \cup {Stranger, ProtoName, NoUser}, p \in Passwords :
         LET rq == [IdleReq EXCEPT !.op = "login", !.form.username = u, !.form.password = p] IN
         IF u = NoUser
         THEN AuthAnswer(r, rq, Resp(400, "Username and password are required"))
         ELSE IF ~HasUser(loadUsers, u)
         THEN AuthAnswer(r, rq, Resp(401, "Invalid username or password"))
         ELSE Set(r, [rq EXCEPT !.pc = "lg_compare", !.users = loadUsers])
    /\ UNCHANGED <<cred, usersFile, tempSessions, pendingTotp, now, nextUuid, nextSecret>>
    /\ ImagesUnchanged

\* login that never asks for the second step
LoginCompareNoTotp(r) ==
    /\ req[r].pc = "lg_compare"
    /\ LET u == req[r].form.username IN
       IF u \notin DOMAIN req[r].users
       THEN AuthAnswer(r, req[r], RespError("Login failed", "Illegal arguments"))
       ELSE IF ~verifyPassword(req[r].form.password, req[r].users[u].passwordHash)
       THEN AuthAnswer(r, req[r], Resp(401, "Invalid username or password"))
       ELSE AuthAnswer(r, req[r], [Resp(200, "") EXCEPT
                                     !.token = generateToken(req[r].users[u].username)])
    /\ UNCHANGED <<cred, usersFile, tempSessions, pendingTotp, now, nextUuid, nextSecret>>
    /\ ImagesUnchanged
\* await verifyPassword(password, user.passwordHash); with TOTP enabled a
\* temporary session is stored and its id returned, without it the token
LoginCompare(r) ==
    /\ req[r].pc = "lg_compare"
    /\ LET u == req[r].form.username IN
       IF u \notin DOMAIN req[r].users
       THEN /\ AuthAnswer(r, req[r], RespError("Login failed", "Illegal arguments"))
            /\ UNCHANGED <<tempSessions, nextUuid>>
       ELSE IF ~verifyPassword(req[r].form.password, req[r].users[u].passwordHash)
       THEN /\ AuthAnswer(r, req[r], Resp(401, "Invalid username or password"))
            /\ UNCHANGED <<tempSessions, nextUuid>>
       ELSE IF req[r].users[u].totpEnabled /\ req[r].users[u].totpSecret # NoSecret
       THEN /\ nextUuid < MaxSessions
            /\ nextUuid' = nextUuid + 1
            /\ tempSessions' = [t \in DOMAIN tempSessions \cup {nextUuid'} |->
                                  IF t = nextUuid'
                                  THEN [username |-> u, expiresAt |-> now + TempSessionLifetime]
                                  ELSE tempSessions[t]]
            /\ AuthAnswer(r, req[r], [Resp(200, "TOTP verification required") EXCEPT
                                        !.requiresTotp = TRUE, !.tempSessionId = nextUuid'])
       ELSE /\ AuthAnswer(r, req[r], [Resp(200, "") EXCEPT
                                        !.token = generateToken(req[r].users[u].username)])
            /\ UNCHANGED <<tempSessions, nextUuid>>
    /\ UNCHANGED <<cred, usersFile, pendingTotp, now, nextSecret>>
    /\ ImagesUnchanged

\* POST /api/auth/totp/setup: validateToken, username = req.user.username,
\* users = await loadUsers(), the new secret is stored as pending
SetupLoad(r) ==
    /\ req[r].pc = "idle"
    /\ \E c \in AuthCredentials :
         LET rq == [IdleReq EXCEPT !.op = "setup"]
             u == verifyToken(c.token).username
         IN  /\ cred' = [cred EXCEPT ![r] = c]
             /\ IF ~validateToken(c)
                THEN /\ AuthAnswer(r, rq, Resp(401, "Unauthorized. Invalid or missing authentication token."))
                     /\ UNCHANGED <<pendingTotp, nextSecret>>
                ELSE IF verifyToken(c.token) = Null
                THEN /\ AuthAnswer(r, rq, RespError("TOTP setup failed", "req.user is undefined"))
                     /\ UNCHANGED <<pendingTotp, nextSecret>>
                ELSE IF ~HasUser(loadUsers, u)
                THEN /\ AuthAnswer(r, rq, Resp(404, "User not found"))
                     /\ UNCHANGED <<pendingTotp, nextSecret>>
                ELSE /\ nextSecret < MaxSecrets
                     /\ nextSecret' = nextSecret + 1
                     /\ pendingTotp' = [v \in DOMAIN pendingTotp \cup {u} |->
                                          IF v = u THEN nextSecret' ELSE pendingTotp[v]]
                     /\ Set(r, [rq EXCEPT !.pc = "su_qr", !.secret = nextSecret'])
    /\ UNCHANGED <<usersFile, tempSessions, now, nextUuid>>
    /\ ImagesUnchanged

\* qrCodeUrl = await generateQrCodeUrl(secret.otpauth_url); res.json({ secret, ... })
SetupQr(r) ==
    /\ req[r].pc = "su_qr"
    /\ \/ AuthAnswer(r, [req[r] EXCEPT !.secret = NoSecret],
                     [Resp(200, "Scan QR code") EXCEPT !.secret = req[r].secret])
       \/ AuthAnswer(r, [req[r] EXCEPT !.secret = NoSecret],
                     RespError("TOTP setup failed", "Failed to generate QR code"))
    /\ UNCHANGED <<cred, usersFile, tempSessions, pendingTotp, now, nextUuid, nextSecret>>
    /\ ImagesUnchanged

\* POST /api/auth/totp/verify with enable === true: the checks of the token,
\* the user, the pending secret and the code; then the user is changed
VerifyEnable(r) ==
    /\ req[r].pc = "idle"
    /\ \E c \in AuthCredentials, code \in Codes :
         LET rq == [IdleReq EXCEPT !.op = "verify", !.form.code = code, !.form.enable = TRUE]
             u == verifyToken(c.token).username
         IN  /\ cred' = [cred EXCEPT ![r] = c]
             /\ IF ~c.token.sent
                THEN AuthAnswer(r, rq, Resp(401, "Authentication token required to enable TOTP"))
                ELSE IF verifyToken(c.token) = Null
                THEN AuthAnswer(r, rq, Resp(401, "Invalid authentication token"))
                ELSE IF ~HasUser(loadUsers, u)
                THEN AuthAnswer(r, rq, Resp(404, "User not found"))
                ELSE IF u \notin DOMAIN pendingTotp
                THEN AuthAnswer(r, rq, Resp(400, "No pending TOTP setup. Call /api/auth/totp/setup first"))
                ELSE IF ~verifyTotpToken(pendingTotp[u], code)
                THEN AuthAnswer(r, rq, Resp(400, "Invalid TOTP code"))
                ELSE Set(r, [rq EXCEPT !.pc = "vf_save",
                                       !.users = [loadUsers EXCEPT
                                                    ![u].totpSecret = pendingTotp[u],
                                                    ![u].totpEnabled = TRUE]])
    /\ UNCHANGED <<usersFile, tempSessions, pendingTotp, now, nextUuid, nextSecret>>
    /\ ImagesUnchanged

\* await saveUsers(users): the open of fs.writeFile
VerifySaveOpen(r) ==
    /\ req[r].pc = "vf_save"
    /\ \/ /\ usersFile' = [ok |-> FALSE, users |-> EmptyUsers]
          /\ Set(r, [req[r] EXCEPT !.pc = "vf_write"])
       \/ /\ AuthAnswer(r, req[r], RespError("TOTP verification failed", FsError))
          /\ UNCHANGED usersFile
    /\ UNCHANGED <<cred, tempSessions, pendingTotp, now, nextUuid, nextSecret>>
    /\ ImagesUnchanged

\* the write of fs.writeFile; delete pendingTotp[username]; res.json({ success })
VerifySaveWrite(r) ==
    /\ req[r].pc = "vf_write"
    /\ usersFile' = saveUsers(req[r].users)
    /\ pendingTotp' = [v \in DOMAIN pendingTotp \ {verifyToken(cred[r].token).username} |->
                         pendingTotp[v]]
    /\ AuthAnswer(r, req[r], Resp(200, "TOTP enabled successfully"))
    /\ UNCHANGED <<cred, tempSessions, now, nextUuid, nextSecret>>
    /\ ImagesUnchanged

\* totp/verify after a login that leaves the temporary session in place when
\* it has issued the token
VerifyLoginKeepsSession(r) ==
    /\ req[r].pc = "idle"
    /\ \E t \in (1..MaxSessions) \cup {NoSession}, code \in Codes :
         LET rq == [IdleReq EXCEPT !.op = "verify", !.form.code = code, !.form.tempSessionId = t]
             u == tempSessions[t].username
         IN  IF t = NoSession
             THEN /\ AuthAnswer(r, rq, Resp(400, "tempSessionId is required for TOTP verification"))
                  /\ UNCHANGED tempSessions
             ELSE IF t \notin DOMAIN tempSessions
             THEN /\ AuthAnswer(r, rq, Resp(400, "Invalid or expired session"))
                  /\ UNCHANGED tempSessions
             ELSE IF now > tempSessions[t].expiresAt
             THEN /\ AuthAnswer(r, rq, Resp(400, "Session expired. Please login again."))
                  /\ tempSessions' = [x \in DOMAIN tempSessions \ {t} |-> tempSessions[x]]
             ELSE IF ~HasUser(loadUsers, u)
             THEN /\ AuthAnswer(r, rq, Resp(404, "User not found"))
                  /\ UNCHANGED tempSessions
             ELSE IF loadUsers[u].totpSecret = NoSecret
             THEN /\ AuthAnswer(r, rq, Resp(400, "TOTP not enabled for this user"))
                  /\ UNCHANGED tempSessions
             ELSE IF ~verifyTotpToken(loadUsers[u].totpSecret, code)
             THEN /\ AuthAnswer(r, rq, Resp(401, "Invalid TOTP code"))
                  /\ UNCHANGED tempSessions
             ELSE /\ AuthAnswer(r, rq, [Resp(200, "") EXCEPT !.token = generateToken(u)])
                  /\ UNCHANGED tempSessions
    /\ UNCHANGED <<cred, usersFile, pendingTotp, now, nextUuid, nextSecret>>
    /\ ImagesUnchanged
\* totp/verify after a login that takes the session as expired from the
\* instant expiresAt on
VerifyLoginExpiresEarly(r) ==
    /\ req[r].pc = "idle"
    /\ \E t \in (1..MaxSessions) \cup {NoSession}, code \in Codes :
         LET rq == [IdleReq EXCEPT !.op = "verify", !.form.code = code, !.form.tempSessionId = t]
             u == tempSessions[t].username
         IN  IF t = NoSession
             THEN /\ AuthAnswer(r, rq, Resp(400, "tempSessionId is required for TOTP verification"))
                  /\ UNCHANGED tempSessions
             ELSE IF t \notin DOMAIN tempSessions
             THEN /\ AuthAnswer(r, rq, Resp(400, "Invalid or expired session"))
                  /\ UNCHANGED tempSessions
             ELSE IF now >= tempSessions[t].expiresAt
             THEN /\ AuthAnswer(r, rq, Resp(400, "Session expired. Please login again."))
                  /\ tempSessions' = [x \in DOMAIN tempSessions \ {t} |-> tempSessions[x]]
             ELSE IF ~HasUser(loadUsers, u)
             THEN /\ AuthAnswer(r, rq, Resp(404, "User not found"))
                  /\ UNCHANGED tempSessions
             ELSE IF loadUsers[u].totpSecret = NoSecret
             THEN /\ AuthAnswer(r, rq, Resp(400, "TOTP not enabled for this user"))
                  /\ UNCHANGED tempSessions
             ELSE IF ~verifyTotpToken(loadUsers[u].totpSecret, code)
             THEN /\ AuthAnswer(r, rq, Resp(401, "Invalid TOTP code"))
                  /\ UNCHANGED tempSessions
             ELSE /\ AuthAnswer(r, rq, [Resp(200, "") EXCEPT !.token = generateToken(u)])
                  /\ tempSessions' = [x \in DOMAIN tempSessions \ {t} |-> tempSessions[x]]
    /\ UNCHANGED <<cred, usersFile, pendingTotp, now, nextUuid, nextSecret>>
    /\ ImagesUnchanged
\* POST /api/auth/totp/verify after a login: the checks of the temporary
\* session, its expiry, the user and the code; then the final token
VerifyLogin(r) ==
    /\ req[r].pc = "idle"
    /\ \E t \in (1..MaxSessions) \cup {NoSession}, code \in Codes :
         LET rq == [IdleReq EXCEPT !.op = "verify", !.form.code = code, !.form.tempSessionId = t]
             u == tempSessions[t].username
         IN  IF t = NoSession
             THEN /\ AuthAnswer(r, rq, Resp(400, "tempSessionId is required for TOTP verification"))
                  /\ UNCHANGED tempSessions
             ELSE IF t \notin DOMAIN tempSessions
             THEN /\ AuthAnswer(r, rq, Resp(400, "Invalid or expired session"))
                  /\ UNCHANGED tempSessions
             ELSE IF now > tempSessions[t].expiresAt
             THEN /\ AuthAnswer(r, rq, Resp(400, "Session expired. Please login again."))
                  /\ tempSessions' = [x \in DOMAIN tempSessions \ {t} |-> tempSessions[x]]
             ELSE IF ~HasUser(loadUsers, u)
             THEN /\ AuthAnswer(r, rq, Resp(404, "User not found"))
                  /\ UNCHANGED tempSessions
             ELSE IF loadUsers[u].totpSecret = NoSecret
             THEN /\ AuthAnswer(r, rq, Resp(400, "TOTP not enabled for this user"))
                  /\ UNCHANGED tempSessions
             ELSE IF ~verifyTotpToken(loadUsers[u].totpSecret, code)
             THEN /\ AuthAnswer(r, rq, Resp(401, "Invalid TOTP code"))
                  /\ UNCHANGED tempSessions
             ELSE /\ AuthAnswer(r, rq, [Resp(200, "") EXCEPT !.token = generateToken(u)])
                  /\ tempSessions' = [x \in DOMAIN tempSessions \ {t} |-> tempSessions[x]]
    /\ UNCHANGED <<cred, usersFile, pendingTotp, now, nextUuid, nextSecret>>
    /\ ImagesUnchanged

\* totp/disable that clears totpEnabled and keeps the secret
DisableLoadKeepsSecret(r) ==
    /\ req[r].pc = "idle"
    /\ \E c \in AuthCredentials :
         LET rq == [IdleReq EXCEPT !.op = "disable"]
             u == verifyToken(c.token).username
         IN  /\ cred' = [cred EXCEPT ![r] = c]
             /\ IF ~validateToken(c)
                THEN AuthAnswer(r, rq, Resp(401, "Unauthorized. Invalid or missing authentication token."))
                ELSE IF verifyToken(c.token) = Null
                THEN AuthAnswer(r, rq, RespError("Failed to disable TOTP", "req.user is undefined"))
                ELSE IF ~HasUser(loadUsers, u)
                THEN AuthAnswer(r, rq, Resp(404, "User not found"))
                ELSE Set(r, [rq EXCEPT !.pc = "ds_save",
                                       !.users = [loadUsers EXCEPT ![u].totpEnabled = FALSE]])
    /\ UNCHANGED <<usersFile, tempSessions, pendingTotp, now, nextUuid, nextSecret>>
    /\ ImagesUnchanged
\* POST /api/auth/totp/disable: validateToken, users = await loadUsers(),
\* user.totpSecret = null, user.totpEnabled = false
DisableLoad(r) ==
    /\ req[r].pc = "idle"
    /\ \E c \in AuthCredentials :
         LET rq == [IdleReq EXCEPT !.op = "disable"]
             u == verifyToken(c.token).username
         IN  /\ cred' = [cred EXCEPT ![r] = c]
             /\ IF ~validateToken(c)
                THEN AuthAnswer(r, rq, Resp(401, "Unauthorized. Invalid or missing authentication token."))
                ELSE IF verifyToken(c.token) = Null
                THEN AuthAnswer(r, rq, RespError("Failed to disable TOTP", "req.user is undefined"))
                ELSE IF ~HasUser(loadUsers, u)
                THEN AuthAnswer(r, rq, Resp(404, "User not found"))
                ELSE Set(r, [rq EXCEPT !.pc = "ds_save",
                                       !.users = [loadUsers EXCEPT ![u].totpSecret = NoSecret,
                                                                   ![u].totpEnabled = FALSE]])
    /\ UNCHANGED <<usersFile, tempSessions, pendingTotp, now, nextUuid, nextSecret>>
    /\ ImagesUnchanged

\* await saveUsers(users): the open of fs.writeFile
DisableSaveOpen(r) ==
    /\ req[r].pc = "ds_save"
    /\ \/ /\ usersFile' = [ok |-> FALSE, users |-> EmptyUsers]
          /\ Set(r, [req[r] EXCEPT !.pc = "ds_write"])
       \/ /\ AuthAnswer(r, req[r], RespError("Failed to disable TOTP", FsError))
          /\ UNCHANGED usersFile
    /\ UNCHANGED <<cred, tempSessions, pendingTotp, now, nextUuid, nextSecret>>
    /\ ImagesUnchanged

\* the write of fs.writeFile; res.json({ success })
DisableSaveWrite(r) ==
    /\ req[r].pc = "ds_write"
    /\ usersFile' = saveUsers(req[r].users)
    /\ AuthAnswer(r, req[r], Resp(200, "TOTP disabled successfully"))
    /\ UNCHANGED <<cred, tempSessions, pendingTotp, now, nextUuid, nextSecret>>
    /\ ImagesUnchanged

\* GET /api/auth/me: validateToken, users = await loadUsers(), the user's
\* name (totpEnabled and createdAt are left out of the answer)
Me(r) ==
    /\ req[r].pc = "idle"
    /\ \E c \in AuthCredentials :
         LET rq == [IdleReq EXCEPT !.op = "me"]
             u == verifyToken(c.token).username
         IN  /\ cred' = [cred EXCEPT ![r] = c]
             /\ IF ~validateToken(c)
                THEN AuthAnswer(r, rq, Resp(401, "Unauthorized. Invalid or missing authentication token."))
                ELSE IF verifyToken(c.token) = Null
                THEN AuthAnswer(r, rq, RespError("Failed to get user info", "req.user is undefined"))
                ELSE IF ~HasUser(loadUsers, u)
                THEN AuthAnswer(r, rq, Resp(404, "User not found"))
                ELSE AuthAnswer(r, rq, Resp(200, u))
    /\ UNCHANGED <<usersFile, tempSessions, pendingTotp, now, nextUuid, nextSecret>>
    /\ ImagesUnchanged

\* the requests to the authentication routes one at a time
SerialLogin(r) == Alone(r) /\ LoginLoad(r)
SerialSetup(r) == Alone(r) /\ SetupLoad(r)
SerialVerifyEnable(r) == Alone(r) /\ VerifyEnable(r)
SerialVerifyLogin(r) == Alone(r) /\ VerifyLogin(r)
SerialDisable(r) == Alone(r) /\ DisableLoad(r)
SerialMe(r) == Alone(r) /\ Me(r)

NextAuth ==
    \/ Tick
    \/ \E r \in Reqs :
        \/ SerialLogin(r)
        \/ LoginCompare(r)
        \/ SerialSetup(r)
        \/ SetupQr(r)
        \/ SerialVerifyEnable(r)
        \/ VerifySaveOpen(r)
        \/ VerifySaveWrite(r)
        \/ SerialVerifyLogin(r)
        \/ SerialDisable(r)
        \/ DisableSaveOpen(r)
        \/ DisableSaveWrite(r)
        \/ SerialMe(r)
        \/ Depart(r)

SpecAuth == InitAuth /\ [][NextAuth]_vars

\* the step in which request r is answered
AnswerOf(r) == StepOf(r) /\ req'[r].pc = "done"
\* the login in slot r has loaded the record of its user and sent the
\* password that belongs to it
CorrectPassword(r) ==
    /\ req[r].pc = "lg_compare"
    /\ req[r].form.username \in DOMAIN req[r].users
    /\ req[r].users[req[r].form.username].passwordHash = <<"bcrypt", req[r].form.password>>
\* TOTP is enabled in a user record
TotpOn(user) == user.totpEnabled /\ user.totpSecret # NoSecret

\* C24: two-step login.  A login with the correct password of a user with
\* TOTP enabled answers requiresTotp with the id of a new temporary session
\* of that user that expires five minutes later, and no token; for a user
\* without TOTP it answers the token of that user.  A temporary session is
\* only ever created by such a login.  Every other answer that carries a
\* token is that of a totp/verify without enable that presented the id of an
\* existing, unexpired temporary session and the code of the stored secret of
\* the session's user, and the token is that user's.
C24_TwoStepLogin ==
    [][/\ \A r \in Reqs :
            AnswerOf(r)
            => /\ CorrectPassword(r)
                  => LET u == req[r].form.username
                         t == req'[r].resp.tempSessionId
                     IN  IF TotpOn(req[r].users[u])
                         THEN /\ req'[r].resp.requiresTotp
                              /\ req'[r].resp.token = NoToken
                              /\ t \notin DOMAIN tempSessions /\ t \in DOMAIN tempSessions'
                              /\ tempSessions'[t] = [username |-> u,
                                                     expiresAt |-> now + 5 * 60 * 1000]
                         ELSE /\ req'[r].resp.token = [sent |-> TRUE, valid |-> TRUE, username |-> u]
                              /\ ~req'[r].resp.requiresTotp
                              /\ UNCHANGED tempSessions
               /\ (req'[r].resp.token # NoToken /\ ~CorrectPassword(r))
                  => LET t == req'[r].form.tempSessionId IN
                     /\ req'[r].op = "verify" /\ ~req'[r].form.enable
                     /\ t \in DOMAIN tempSessions
                     /\ now <= tempSessions[t].expiresAt
                     /\ req'[r].resp.token.username = tempSessions[t].username
                     /\ tempSessions[t].username \in DOMAIN loadUsers
                     /\ loadUsers[tempSessions[t].username].totpSecret # NoSecret
                     /\ req'[r].form.code = loadUsers[tempSessions[t].username].totpSecret
       /\ \A t \in DOMAIN tempSessions' :
            IF t \in DOMAIN tempSessions
            THEN tempSessions'[t] = tempSessions[t]
            ELSE \E r \in Reqs :
                   /\ CorrectPassword(r) /\ AnswerOf(r)
                   /\ TotpOn(req[r].users[req[r].form.username])
                   /\ tempSessions'[t].username = req[r].form.username
      ]_vars

\* C24: a totp/verify has answered the token of the admin, who has TOTP
\* enabled, for a temporary session and the code of the stored secret
C24_Witness ==
    \E r \in Reqs :
        /\ Answered(r, "verify") /\ ~req[r].form.enable
        /\ req[r].resp.status = 200
        /\ req[r].resp.token = generateToken("admin")
        /\ TotpOn(loadUsers["admin"])
        /\ req[r].form.code = loadUsers["admin"].totpSecret
        /\ req[r].form.tempSessionId \notin DOMAIN tempSessions

\* the users object that request r holds is about to be, or is being, written
SavingUsers(r) == req[r].pc \in {"vf_save", "vf_write", "ds_save", "ds_write"}
\* the records of users a and b agree on every user but u
SameButFor(a, b, u) ==
    /\ DOMAIN a = DOMAIN b
    /\ \A v \in DOMAIN a \ {u} : a[v] = b[v]

\* C25, with the requests served one at a time: TOTP is enabled only after
\* verification.  No step of a totp/setup
\* changes users.json, and the secret it generates becomes the pending secret
\* of the token's user.  users.json changes only when a totp/verify with
\* enable or a totp/disable writes the users object it prepared; the object a
\* totp/verify prepares differs from the stored one in the user of its valid
\* JWT alone, who gets totpEnabled and, as totpSecret, the pending secret,
\* which is the code's secret; the object a totp/disable prepares enables
\* nobody.  An enable request of an existing user with a valid JWT and no
\* pending secret is answered 400 and changes neither users.json nor the
\* pending secrets nor the temporary sessions.
C25_TotpEnabledOnlyAfterVerify ==
    [][\A r \in Reqs :
         /\ (StepOf(r) /\ req'[r].op = "setup")
            => /\ UNCHANGED usersFile
               /\ req'[r].pc = "su_qr"
                  => /\ cred'[r].token.valid
                     /\ req'[r].secret # NoSecret
                     /\ req'[r].secret \notin {pendingTotp[v] : v \in DOMAIN pendingTotp}
                     /\ cred'[r].token.username \in DOMAIN pendingTotp'
                     /\ pendingTotp'[cred'[r].token.username] = req'[r].secret
         /\ (usersFile' # usersFile)
            => \E w \in Reqs :
                 /\ SavingUsers(w)
                 /\ StepOf(w)
                 /\ req[w].pc \in {"vf_write", "ds_write"}
                    => usersFile' = [ok |-> TRUE, users |-> req[w].users]
                 /\ req[w].pc \in {"vf_save", "ds_save"}
                    => /\ ~usersFile'.ok
                       /\ req'[w].users = req[w].users
         /\ (StepOf(r) /\ req'[r].pc = "vf_save")
            => LET u == cred'[r].token.username IN
               /\ req'[r].op = "verify" /\ req'[r].form.enable
               /\ cred'[r].token.valid
               /\ usersFile.ok
               /\ u \in DOMAIN usersFile.users
               /\ u \in DOMAIN pendingTotp
               /\ pendingTotp[u] # NoSecret
               /\ req'[r].form.code = pendingTotp[u]
               /\ SameButFor(req'[r].users, usersFile.users, u)
               /\ req'[r].users[u] = [usersFile.users[u] EXCEPT !.totpEnabled = TRUE,
                                                                !.totpSecret = pendingTotp[u]]
         /\ (StepOf(r) /\ req'[r].pc = "ds_save")
            => /\ usersFile.ok
               /\ DOMAIN req'[r].users = DOMAIN usersFile.users
               /\ \A v \in DOMAIN usersFile.users :
                    req'[r].users[v].totpEnabled => req'[r].users[v] = usersFile.users[v]
         /\ (AnswerOf(r) /\ req[r].pc = "idle" /\ req'[r].op = "verify" /\ req'[r].form.enable
               /\ cred'[r].token.valid
               /\ cred'[r].token.username \in DOMAIN loadUsers
               /\ cred'[r].token.username \notin DOMAIN pendingTotp)
            => /\ req'[r].resp.status = 400
               /\ UNCHANGED <<usersFile, pendingTotp, tempSessions>>
      ]_vars

\* C25: a totp/verify with enable has answered success for the admin after a
\* totp/setup: the stored record has totpEnabled and the secret whose code
\* the request sent, and the pending secret is gone
C25_Witness ==
    \E r \in Reqs :
        /\ Answered(r, "verify") /\ req[r].form.enable
        /\ req[r].resp.status = 200
        /\ req[r].resp.msg = "TOTP enabled successfully"
        /\ cred[r].token = [sent |-> TRUE, valid |-> TRUE, username |-> "admin"]
        /\ usersFile.ok
        /\ usersFile.users["admin"].totpEnabled
        /\ usersFile.users["admin"].totpSecret = req[r].form.code
        /\ req[r].form.code # NoSecret
        /\ "admin" \notin DOMAIN pendingTotp

\* the TOTP routes with their requests interleaved at every await
NextTotp ==
    \E r \in Reqs :
        \/ SetupLoad(r)
        \/ SetupQr(r)
        \/ VerifyEnable(r)
        \/ VerifySaveOpen(r)
        \/ VerifySaveWrite(r)
        \/ DisableLoad(r)
        \/ DisableSaveOpen(r)
        \/ DisableSaveWrite(r)
        \/ Depart(r)

SpecTotp == InitAuth /\ [][NextTotp]_vars

StartsUnreadable(r, ids) ==
    /\ req[r].pc = "idle" /\ StepOf(r)
    /\ ~metaFile.ok
    /\ req'[r].op \in {"resolve", "info", "delete"} => req'[r].id \in ids
\* the answers to a request that found the index unreadable: get-info and
\* delete answer 404 at once, resolve answers 404 at once or goes on to the
\* check of an original that is not there, list shows no image; the index
\* file is left as it is
AnsweredAsEmpty(r) ==
    /\ req'[r].op \in {"info", "delete"}
       => req'[r].pc = "done" /\ req'[r].resp.status = 404
    /\ req'[r].op = "resolve"
       => IF req'[r].pc = "done"
          THEN req'[r].resp.status = 404
          ELSE /\ req'[r].pc = "rs_access"
               /\ ~HasFile(originals, OriginalPath(req'[r].id, req'[r].ext))
    /\ req'[r].op = "list"
       => req'[r].pc = "done" /\ req'[r].resp.status = 200 /\ req'[r].resp.images = EmptyStore
    /\ UNCHANGED metaFile

\* C32: an unreadable index is an empty index.  A resolve, get-info or delete
\* of any identity that starts while the metadata file cannot be parsed
\* answers 404, a list answers with no images, and the request does not
\* modify the metadata file.
C32_UnreadableIndexIsEmpty ==
    [][\A r \in Reqs : StartsUnreadable(r, ReqIds) => AnsweredAsEmpty(r)]_vars

\* C32 for the identities the server generates
C32_UnreadableIndexIsEmptyForGenerated ==
    [][\A r \in Reqs : StartsUnreadable(r, GenIds) => AnsweredAsEmpty(r)]_vars

\* C32: a delete of a generated identity that has been uploaded was answered
\* 404 because it started while the index file could not be parsed
C32_Witness ==
    \E r \in Reqs :
        /\ Answered(r, "delete") /\ req[r].resp = Resp(404, "Image not found")
        /\ req[r].id \in DOMAIN uploaded
        /\ ~metaFile.ok

\* the step in which a totp/verify without enable that presents the
\* temporary session id t is answered
VerifyOf(r, t) ==
    /\ AnswerOf(r) /\ req[r].pc = "idle"
    /\ req'[r].op = "verify" /\ ~req'[r].form.enable
    /\ req'[r].form.tempSessionId = t
\* the temporary session t is there, has not expired, and its user has a
\* stored TOTP secret
Completable(t) ==
    /\ t \in DOMAIN tempSessions
    /\ now <= tempSessions[t].expiresAt
    /\ tempSessions[t].username \in DOMAIN loadUsers
    /\ loadUsers[tempSessions[t].username].totpSecret # NoSecret

\* C33: a temporary login session is single-use and is consumed only by
\* success.  A verify that issues a token removes the session it presented,
\* an id that has been handed out never names a session again once its
\* session is removed, and a verify with an id that names no session is
\* answered 400 without a token: every verify after the successful one is
\* rejected with 400.  A verify with a wrong code for a session that can be
\* completed is answered 401, issues no token and leaves every session in
\* place; a verify with the code of the stored secret for such a session is
\* answered 200 with the token of the session's user.
C33_SessionSingleUse ==
    [][/\ \A r \in Reqs, t \in 1..MaxSessions :
            VerifyOf(r, t)
            => /\ req'[r].resp.token # NoToken => t \notin DOMAIN tempSessions'
               /\ t \notin DOMAIN tempSessions
                  => /\ req'[r].resp.status = 400
                     /\ req'[r].resp.token = NoToken
                     /\ UNCHANGED tempSessions
               /\ (Completable(t)
                     /\ req'[r].form.code # loadUsers[tempSessions[t].username].totpSecret)
                  => /\ req'[r].resp.status = 401
                     /\ req'[r].resp.token = NoToken
                     /\ UNCHANGED tempSessions
               /\ (Completable(t)
                     /\ req'[r].form.code = loadUsers[tempSessions[t].username].totpSecret)
                  => /\ req'[r].resp.status = 200
                     /\ req'[r].resp.token = [sent |-> TRUE, valid |-> TRUE,
                                              username |-> tempSessions[t].username]
       /\ \A t \in 1..MaxSessions :
            (t <= nextUuid /\ t \notin DOMAIN tempSessions) => t \notin DOMAIN tempSessions'
      ]_vars

\* C33: before any session could expire, a verify with the code of the
\* admin's stored secret was answered 400 for a temporary session id that a
\* login handed out and an earlier verify consumed
C33_Witness ==
    \E r \in Reqs :
        /\ Answered(r, "verify") /\ ~req[r].form.enable
        /\ req[r].resp = Resp(400, "Invalid or expired session")
        /\ req[r].form.tempSessionId \in 1..nextUuid
        /\ req[r].form.tempSessionId \notin DOMAIN tempSessions
        /\ now = 0
        /\ TotpOn(loadUsers["admin"])
        /\ req[r].form.code = loadUsers["admin"].totpSecret

\* the answer to a verify whose temporary session has expired
ExpiredAnswer == Resp(400, "Session expired. Please login again.")

\* C34: a temporary login session expires five minutes after the login that
\* created it.  Every new session has expiresAt = now + 5 * 60 * 1000.  A verify
\* that presents a session at an instant later than its expiresAt is answered
\* 400 whatever the code, issues no token and removes the session, and a
\* removed id never names a session again; a verify at or before expiresAt
\* is not answered as expired, and with the code of the stored secret of the
\* session's user it is answered 200.
C34_SessionExpires ==
    [][/\ \A t \in DOMAIN tempSessions' \ DOMAIN tempSessions :
            tempSessions'[t].expiresAt = now + 5 * 60 * 1000
       /\ \A r \in Reqs, t \in DOMAIN tempSessions :
            VerifyOf(r, t)
            => IF now > tempSessions[t].expiresAt
               THEN /\ req'[r].resp.status = 400
                    /\ req'[r].resp = ExpiredAnswer
                    /\ req'[r].resp.token = NoToken
                    /\ t \notin DOMAIN tempSessions'
               ELSE /\ req'[r].resp # ExpiredAnswer
                    /\ (/\ tempSessions[t].username \in DOMAIN loadUsers
                        /\ loadUsers[tempSessions[t].username].totpSecret # NoSecret
                        /\ req'[r].form.code = loadUsers[tempSessions[t].username].totpSecret)
                       => req'[r].resp.status = 200 /\ req'[r].resp.token # NoToken
       /\ \A t \in 1..nextUuid :
            t \notin DOMAIN tempSessions => t \notin DOMAIN tempSessions'
      ]_vars

\* C34: one millisecond after the five minutes of the only session, a verify
\* with the code of the admin's stored secret (the only secret ever
\* generated) was answered as expired and the session is gone
C34_Witness ==
    \E r \in Reqs :
        /\ Answered(r, "verify") /\ ~req[r].form.enable
        /\ req[r].resp = ExpiredAnswer
        /\ now = TempSessionLifetime + 1
        /\ nextUuid = 1 /\ req[r].form.tempSessionId = 1
        /\ tempSessions = [t \in {} |-> 0]
        /\ nextSecret = 1
        /\ TotpOn(loadUsers["admin"])
        /\ req[r].form.code = loadUsers["admin"].totpSecret

=============================================================================
